---- MODULE Spec2Model ----
(***************************************************************************)
(* A model of transformData (group / aggregate / sort of booking records)  *)
(* of src/src/HotelBookingDashboard.tsx, with the lodash helpers and the   *)
(* JavaScript built-ins it calls modelled by what they do.                 *)
(*                                                                         *)
(* JavaScript values are tagged records [t, v].  The booking objects are   *)
(* kept in arr and a REFERENCE to one is its position there; an array of   *)
(* bookings is an object of its own: heap maps the identity of each array  *)
(* to the references it holds, heap[InputArray] being the list passed to   *)
(* transformData.  Numbers computed by the aggregator are                  *)
(* written [n, d]: for d > 0 the double nearest to n/d, n/d in lowest      *)
(* terms (distinct fractions of the model's small integers have distinct   *)
(* nearest doubles); 1/0 and -1/0 are +Infinity and -Infinity, 0/0 is NaN. *)
(* The bits of such a double are computed where arithmetic is done on it.  *)
(***************************************************************************)
EXTENDS Integers, Sequences, FiniteSets, TLC

VARIABLES arr, heap, options, pc, allGroupBy, gi, groupedData, entries,
          results, returned, calls,
          filters, debouncedSearch, timezone,
          location, localStorage, mounted, deps

\* the state of transformData and of its callers
transformVars == <<arr, heap, options, pc, allGroupBy, gi, groupedData,
                   entries, results, returned, calls>>

\* the state of the dashboard component: the filters of useHotelFilters,
\* the debounced search term and the time zone of the browser (hours east
\* of UTC), and the browser as useHotelFilters sees it: the query string of
\* the URL (window.location.search), the localStorage entry of the filters
\* (Null when there is none), whether the hook has been initialised, and
\* the filters for which its persistence effect last ran (a list of none or
\* one)
dashboardVars ==
    <<filters, debouncedSearch, timezone, location, localStorage, mounted, deps>>

vars == <<transformVars, dashboardVars>>

(***************************************************************************)
(* Bounds of the model.                                                    *)
(***************************************************************************)
MaxLen == 3
MaxVal == 2
MaxCalls == 2
AvgLen == 7

(***************************************************************************)
(* JavaScript values.                                                      *)
(***************************************************************************)
Undefined == [t |-> "undefined", v |-> 0]
Num(k) == [t |-> "number", v |-> k]
Str(s) == [t |-> "string", v |-> s]
Obj(o) == [t |-> "object", v |-> o]

Range(s) == {s[i] : i \in DOMAIN s}

(***************************************************************************)
(* Number::toString for integers.                                          *)
(***************************************************************************)
Digits == <<"0", "1", "2", "3", "4", "5", "6", "7", "8", "9">>

RECURSIVE NumberToString(_)
NumberToString(k) ==
    IF k < 0 THEN "-" \o NumberToString(-k)
    ELSE IF k < 10 THEN Digits[k + 1]
    ELSE NumberToString(k \div 10) \o Digits[(k % 10) + 1]

(***************************************************************************)
(* ToPropertyKey: the string under which a value is used as an object key. *)
(***************************************************************************)
ToPropertyKey(val) ==
    CASE val.t = "number" -> NumberToString(val.v)
      [] val.t = "string" -> val.v
      [] val.t = "undefined" -> "undefined"
      [] OTHER -> "[object Object]"

(***************************************************************************)
(* An own property key is an array index when it is the canonical decimal  *)
(* form of an integer in 0 .. 2^32 - 2.  Keys are compared as digit        *)
(* strings, so that no number beyond the model checker's integers is       *)
(* formed: of two canonical forms the shorter is the smaller number, and   *)
(* of two of the same length the lexicographically smaller.                *)
(***************************************************************************)
DigitValue(c) ==
    IF \E k \in 1..10 : Digits[k] = c
    THEN (CHOOSE k \in 1..10 : Digits[k] = c) - 1
    ELSE -1

RECURSIVE AllDigits(_)
AllDigits(s) == s = "" \/ (DigitValue(Head(s)) >= 0 /\ AllDigits(Tail(s)))

RECURSIVE DigitsLess(_, _)
DigitsLess(a, b) ==
    IF Len(a) # Len(b) THEN Len(a) < Len(b)
    ELSE IF a = "" THEN FALSE
    ELSE IF Head(a) # Head(b) THEN DigitValue(Head(a)) < DigitValue(Head(b))
    ELSE DigitsLess(Tail(a), Tail(b))

MaxArrayIndex == "4294967294"

IsArrayIndex(key) ==
    /\ key # ""
    /\ AllDigits(key)
    /\ (Len(key) > 1 => Head(key) # "0")
    /\ ~DigitsLess(MaxArrayIndex, key)

(***************************************************************************)
(* lodash stringToPath: a dotted path split into its segments.             *)
(***************************************************************************)
RECURSIVE SplitDots(_, _, _)
SplitDots(s, cur, acc) ==
    IF s = "" THEN Append(acc, cur)
    ELSE IF Head(s) = "." THEN SplitDots(Tail(s), "", Append(acc, cur))
    ELSE SplitDots(Tail(s), cur \o Head(s), acc)

stringToPath(path) == SplitDots(path, "", <<>>)

(***************************************************************************)
(* lodash get(object, path, defaultValue): walk the segments; a missing    *)
(* segment (or a walk through a non-object) gives undefined, and an        *)
(* undefined result is replaced by the default.                            *)
(***************************************************************************)
RECURSIVE baseGet(_, _)
baseGet(val, segs) ==
    IF segs = <<>> THEN val
    ELSE IF val.t = "object" /\ Head(segs) \in DOMAIN val.v
         THEN baseGet(val.v[Head(segs)], Tail(segs))
         ELSE Undefined

get(object, path, defaultValue) ==
    LET result == baseGet(Obj(object), stringToPath(path))
    IN  IF result.t = "undefined" THEN defaultValue ELSE result

(***************************************************************************)
(* JavaScript numbers produced by the aggregator, as extended rationals.   *)
(***************************************************************************)
NaN == [n |-> 0, d |-> 0]
PosInfinity == [n |-> 1, d |-> 0]
NegInfinity == [n |-> -1, d |-> 0]
IntNum(k) == [n |-> k, d |-> 1]

Abs(k) == IF k < 0 THEN -k ELSE k

RECURSIVE GCD(_, _)
GCD(a, b) == IF b = 0 THEN a ELSE GCD(b, a % b)

\* a / b for an integer a and a length b >= 0 (IEEE: x/0 is +-Infinity, 0/0 NaN)
Divide(a, b) ==
    IF b = 0 THEN (IF a > 0 THEN PosInfinity ELSE IF a < 0 THEN NegInfinity ELSE NaN)
    ELSE LET g == GCD(Abs(a), b) IN [n |-> a \div g, d |-> b \div g]

\* ToBoolean of a number: 0 and NaN are falsy, everything else is truthy
Truthy(x) == x.n # 0

(***************************************************************************)
(* IEEE 754 double precision for positive operands: a double is [m, e]     *)
(* with m its 53 significand bits, most significant first and m[1] = 1,    *)
(* and value 1.m[2]...m[53] * 2^e.                                         *)
(***************************************************************************)
Precision == 53

RECURSIVE BitsOfNat(_)
BitsOfNat(k) == IF k = 0 THEN <<>> ELSE Append(BitsOfNat(k \div 2), k % 2)

Reverse(s) == [i \in 1..Len(s) |-> s[Len(s) + 1 - i]]

\* add one to a list of bits; the list grows by a bit when all bits are 1
RECURSIVE Increment(_)
Increment(bits) ==
    IF bits = <<>> THEN <<1>>
    ELSE IF bits[Len(bits)] = 0
         THEN Append(SubSeq(bits, 1, Len(bits) - 1), 1)
         ELSE Append(Increment(SubSeq(bits, 1, Len(bits) - 1)), 0)

\* round to nearest, ties to even: the bits kept, the first bit dropped
\* and whether a later dropped bit is 1
RoundNearestEven(kept, e, guard, sticky) ==
    IF guard = 1 /\ (sticky \/ kept[Len(kept)] = 1)
    THEN LET up == Increment(kept)
         IN  IF Len(up) > Len(kept)
             THEN [m |-> SubSeq(up, 1, Len(kept)), e |-> e + 1]
             ELSE [m |-> up, e |-> e]
    ELSE [m |-> kept, e |-> e]

\* long division: the bits of (b + r) / b after the leading 1, for r < b
RECURSIVE DivideBits(_, _, _)
DivideBits(r, b, bits) ==
    IF Len(bits) = Precision
    THEN RoundNearestEven(bits, 0, IF 2 * r >= b THEN 1 ELSE 0,
                          (IF 2 * r >= b THEN 2 * r - b ELSE 2 * r) # 0)
    ELSE DivideBits(IF 2 * r >= b THEN 2 * r - b ELSE 2 * r, b,
                    Append(bits, IF 2 * r >= b THEN 1 ELSE 0))

\* the double a / b of integers a, b > 0 (call with e = 0)
RECURSIVE DoubleQuotient(_, _, _)
DoubleQuotient(a, b, e) ==
    IF a < b THEN DoubleQuotient(2 * a, b, e - 1)
    ELSE IF a >= 2 * b THEN DoubleQuotient(a, 2 * b, e + 1)
    ELSE LET q == DivideBits(a - b, b, <<1>>)
         IN  [m |-> q.m, e |-> q.e + e]

\* bits, least significant first, times a small integer
RECURSIVE TimesSmall(_, _, _)
TimesSmall(low, k, carry) ==
    IF low = <<>> THEN BitsOfNat(carry)
    ELSE Append(TimesSmall(Tail(low), k, (Head(low) * k + carry) \div 2),
                (Head(low) * k + carry) % 2)

\* the double x * k of a double x and an integer k > 0
DoubleTimes(x, k) ==
    LET p == TimesSmall(Reverse(x.m), k, 0)
        e == x.e + (Len(p) - Precision)
    IN  IF Len(p) = Precision THEN [m |-> p, e |-> e]
        ELSE RoundNearestEven(SubSeq(p, 1, Precision), e, p[Precision + 1],
                              \E h \in (Precision + 2)..Len(p) : p[h] = 1)

\* the double of an integer k > 0
DoubleOfNat(k) ==
    LET b == BitsOfNat(k)
    IN  [m |-> b \o [h \in 1..(Precision - Len(b)) |-> 0], e |-> Len(b) - 1]

\* q * k === s in doubles, for a finite number q, an integer k > 0 and an
\* integer s
TimesGives(q, k, s) ==
    /\ q.d > 0
    /\ IF q.n = 0 THEN s = 0
       ELSE /\ (q.n > 0) = (s > 0)
            /\ s # 0
            /\ DoubleTimes(DoubleQuotient(Abs(q.n), q.d, 0), k) = DoubleOfNat(Abs(s))

(***************************************************************************)
(* getAggregatedValue (lines 924-944).  items is a list of references.     *)
(***************************************************************************)
RECURSIVE SelectNonZero(_)
SelectNonZero(vals) ==
    IF vals = <<>> THEN <<>>
    ELSE IF Head(vals) # 0 THEN <<Head(vals)>> \o SelectNonZero(Tail(vals))
    ELSE SelectNonZero(Tail(vals))

\* variant: the zero values are kept
AggValuesUnfiltered(items, field) ==
    [i \in DOMAIN items |-> get(arr[items[i]], field, Num(0)).v]

\* items.map(item => get(item, field) ?? 0).filter(value => value !== 0)
AggValues(items, field) ==
    SelectNonZero([i \in DOMAIN items |-> get(arr[items[i]], field, Num(0)).v])

RECURSIVE ReduceSum(_)
ReduceSum(vals) == IF vals = <<>> THEN 0 ELSE Head(vals) + ReduceSum(Tail(vals))

\* variant: the minimum of no value is 0
MathMinOrZero(vals) ==
    IF vals = <<>> THEN IntNum(0)
    ELSE IntNum(CHOOSE m \in Range(vals) : \A w \in Range(vals) : m <= w)

MathMin(vals) ==
    IF vals = <<>> THEN PosInfinity
    ELSE IntNum(CHOOSE m \in Range(vals) : \A w \in Range(vals) : m <= w)

MathMax(vals) ==
    IF vals = <<>> THEN NegInfinity
    ELSE IntNum(CHOOSE m \in Range(vals) : \A w \in Range(vals) : m >= w)

AggAvg(vals) == Divide(ReduceSum(vals), Len(vals))

\* variant: the average divides by the size of the bucket
getAggregatedValuePerItem(items, field, aggregation) ==
    LET values == AggValues(items, field)
    IN  CASE aggregation = "sum" -> IntNum(ReduceSum(values))
          [] aggregation = "avg" -> Divide(ReduceSum(values), Len(items))
          [] aggregation = "min" -> MathMin(values)
          [] aggregation = "max" -> MathMax(values)
          [] aggregation = "count" -> IntNum(Len(values))
          [] OTHER -> IntNum(0)

\* variant: a kind that is not known is taken for sum
getAggregatedValueDefaultSum(items, field, aggregation) ==
    LET values == AggValues(items, field)
    IN  CASE aggregation = "avg" -> AggAvg(values)
          [] aggregation = "min" -> MathMin(values)
          [] aggregation = "max" -> MathMax(values)
          [] aggregation = "count" -> IntNum(Len(values))
          [] OTHER -> IntNum(ReduceSum(values))

getAggregatedValue(items, field, aggregation) ==
    LET values == AggValues(items, field)
    IN  CASE aggregation = "sum" -> IntNum(ReduceSum(values))
          [] aggregation = "avg" -> AggAvg(values)
          [] aggregation = "min" -> MathMin(values)
          [] aggregation = "max" -> MathMax(values)
          [] aggregation = "count" -> IntNum(Len(values))
          [] OTHER -> IntNum(0)

(***************************************************************************)
(* lodash groupBy (line 985): an object whose own properties, kept here in *)
(* creation order, map each key to a new array of the elements that have   *)
(* it.  The fold carries g = [obj, heap]: the object and the arrays.       *)
(***************************************************************************)
InputArray == 0

\* the identity of the next array that is created
NewArray(h) == Cardinality(DOMAIN h)

KeyPos(obj, key) ==
    IF \E k \in DOMAIN obj : obj[k].key = key
    THEN CHOOSE k \in DOMAIN obj : obj[k].key = key
    ELSE 0

\* variant: a later element replaces the list of its key
GroupAddReplace(g, key, ref) ==
    IF KeyPos(g.obj, key) = 0
    THEN [obj |-> Append(g.obj, [key |-> key, items |-> NewArray(g.heap)]),
          heap |-> (NewArray(g.heap) :> <<ref>>) @@ g.heap]
    ELSE [obj |-> g.obj,
          heap |-> [g.heap EXCEPT ![g.obj[KeyPos(g.obj, key)].items] = <<ref>>]]

\* baseAssignValue(result, key, [value]) for a new key, else
\* result[key].push(value)
GroupAdd(g, key, ref) ==
    IF KeyPos(g.obj, key) = 0
    THEN [obj |-> Append(g.obj, [key |-> key, items |-> NewArray(g.heap)]),
          heap |-> (NewArray(g.heap) :> <<ref>>) @@ g.heap]
    ELSE [obj |-> g.obj,
          heap |-> [g.heap EXCEPT
                       ![g.obj[KeyPos(g.obj, key)].items] = Append(@, ref)]]

\* variant: an element whose key is undefined is left out
RECURSIVE GroupFoldDefined(_, _, _)
GroupFoldDefined(g, i, path) ==
    IF i > Len(heap[InputArray]) THEN g
    ELSE LET ref == g.heap[InputArray][i]
         IN  GroupFoldDefined(
                 IF get(arr[ref], path, Undefined).t = "undefined" THEN g
                 ELSE GroupAdd(g, ToPropertyKey(get(arr[ref], path, Undefined)),
                               ref),
                 i + 1, path)

\* arrayAggregator: the length of the collection is read once, its
\* elements as the loop reaches them
RECURSIVE GroupFold(_, _, _)
GroupFold(g, i, path) ==
    IF i > Len(heap[InputArray]) THEN g
    ELSE LET ref == g.heap[InputArray][i]
         IN  GroupFold(GroupAdd(g, ToPropertyKey(get(arr[ref], path, Undefined)),
                                ref),
                       i + 1, path)

\* variant: a path after the first is grouped by the compound key of the
\* first path and itself
RECURSIVE GroupFoldCompound(_, _, _)
GroupFoldCompound(g, i, path) ==
    IF i > Len(heap[InputArray]) THEN g
    ELSE LET ref == g.heap[InputArray][i]
         IN  GroupFoldCompound(
                 GroupAdd(g,
                          IF gi > 1
                          THEN ToPropertyKey(get(arr[ref], allGroupBy[1], Undefined))
                               \o "," \o ToPropertyKey(get(arr[ref], path, Undefined))
                          ELSE ToPropertyKey(get(arr[ref], path, Undefined)),
                          ref),
                 i + 1, path)

lGroupByCompound(path) ==
    GroupFoldCompound([obj |-> <<>>, heap |-> heap], 1, path)

\* variant: when every element has the same key, the input array itself is
\* made the list of that key
lGroupByShared(path) ==
    LET g == GroupFold([obj |-> <<>>, heap |-> heap], 1, path)
    IN  IF Len(g.obj) = 1
        THEN [obj |-> <<[key |-> g.obj[1].key, items |-> InputArray]>>,
              heap |-> heap]
        ELSE g

lGroupBy(path) == GroupFold([obj |-> <<>>, heap |-> heap], 1, path)

(***************************************************************************)
(* Object.entries (line 990): own properties in OrdinaryOwnPropertyKeys    *)
(* order, array-index keys first in ascending numeric order, then the      *)
(* other string keys in creation order.                                    *)
(***************************************************************************)
RECURSIVE IndexKeysAscending(_, _)
IndexKeysAscending(obj, todo) ==
    IF todo = {} THEN <<>>
    ELSE LET k == CHOOSE a \in todo :
                      \A b \in todo \ {a} : DigitsLess(obj[a].key, obj[b].key)
         IN  <<obj[k]>> \o IndexKeysAscending(obj, todo \ {k})

RECURSIVE StringKeysInOrder(_, _)
StringKeysInOrder(obj, k) ==
    IF k > Len(obj) THEN <<>>
    ELSE (IF IsArrayIndex(obj[k].key) THEN <<>> ELSE <<obj[k]>>)
         \o StringKeysInOrder(obj, k + 1)

ObjectEntries(obj) ==
    IndexKeysAscending(obj, {k \in DOMAIN obj : IsArrayIndex(obj[k].key)})
    \o StringKeysInOrder(obj, 1)

(***************************************************************************)
(* The comparator of lines 1014-1018 and Array.prototype.sort, which is    *)
(* stable: an element moves left only past elements that compare greater.  *)
(***************************************************************************)
\* variant: the two orders are exchanged
compareFnExchanged(a, b, sortBy) ==
    IF sortBy.order = "asc"
    THEN get(arr[b], sortBy.field, Num(0)).v - get(arr[a], sortBy.field, Num(0)).v
    ELSE get(arr[a], sortBy.field, Num(0)).v - get(arr[b], sortBy.field, Num(0)).v

compareFn(a, b, sortBy) ==
    IF sortBy.order = "asc"
    THEN get(arr[a], sortBy.field, Num(0)).v - get(arr[b], sortBy.field, Num(0)).v
    ELSE get(arr[b], sortBy.field, Num(0)).v - get(arr[a], sortBy.field, Num(0)).v

\* variant: an element also moves left past the elements that compare equal
RECURSIVE SortInsertUnstable(_, _, _)
SortInsertUnstable(sorted, x, sortBy) ==
    IF sorted = <<>> THEN <<x>>
    ELSE IF compareFn(sorted[Len(sorted)], x, sortBy) >= 0
         THEN Append(SortInsertUnstable(SubSeq(sorted, 1, Len(sorted) - 1), x, sortBy),
                     sorted[Len(sorted)])
         ELSE Append(sorted, x)

\* variant: of the elements that compare equal only the first is kept
RECURSIVE SortInsertDistinct(_, _, _)
SortInsertDistinct(sorted, x, sortBy) ==
    IF sorted = <<>> THEN <<x>>
    ELSE IF compareFn(sorted[Len(sorted)], x, sortBy) > 0
         THEN Append(SortInsertDistinct(SubSeq(sorted, 1, Len(sorted) - 1), x, sortBy),
                     sorted[Len(sorted)])
         ELSE IF compareFn(sorted[Len(sorted)], x, sortBy) = 0
         THEN sorted
         ELSE Append(sorted, x)

RECURSIVE SortInsert(_, _, _)
SortInsert(sorted, x, sortBy) ==
    IF sorted = <<>> THEN <<x>>
    ELSE IF compareFn(sorted[Len(sorted)], x, sortBy) > 0
         THEN Append(SortInsert(SubSeq(sorted, 1, Len(sorted) - 1), x, sortBy),
                     sorted[Len(sorted)])
         ELSE Append(sorted, x)

RECURSIVE SortFrom(_, _, _, _)
SortFrom(sorted, items, k, sortBy) ==
    IF k > Len(items) THEN sorted
    ELSE SortFrom(SortInsert(sorted, items[k], sortBy), items, k + 1, sortBy)

ArraySort(items, sortBy) == SortFrom(<<>>, items, 1, sortBy)

(***************************************************************************)
(* One iteration of the loop over the groups (lines 990-1022).             *)
(***************************************************************************)
AggFields == {"price", "nights", "passengers"}

\* aggregations.f ? getAggregatedValue(items, f, aggregations.f) : 0
AggregateOf(items, aggregations, f) ==
    IF f \in DOMAIN aggregations /\ aggregations[f] # ""
    THEN getAggregatedValue(items, f, aggregations[f])
    ELSE IntNum(0)

\* variant: every requested aggregate is assigned, truthy or not
BuildAggregatesAll(items, aggregations) ==
    [f \in {g \in AggFields : g \in DOMAIN aggregations /\ aggregations[g] # ""}
        |-> AggregateOf(items, aggregations, f)]

\* the _aggregations object: only the truthy values are assigned
BuildAggregates(items, aggregations) ==
    [f \in {g \in AggFields : Truthy(AggregateOf(items, aggregations, g))}
        |-> AggregateOf(items, aggregations, f)]

\* variant: count is the length of the input list
MakeResultInputCount(group, key, items, opts) ==
    ("count" :> Len(heap[InputArray]))
    @@ ("items" :> items)
    @@ ("aggregates" :> BuildAggregates(heap[items], opts.aggregations))
    @@ (group :> key)

\* the object literal of lines 1010-1020; a later property replaces an
\* earlier one of the same name; items is the array of the group, which
\* Array.prototype.sort returns after sorting it
MakeResult(group, key, items, opts) ==
    LET sorted == ArraySort(heap[items], opts.sortBy)
    IN  ("count" :> Len(sorted))
        @@ ("items" :> items)
        @@ ("aggregates" :> BuildAggregates(heap[items], opts.aggregations))
        @@ (group :> key)

(***************************************************************************)
(* The dashboard component and its filter hook.  Strings are ASCII:        *)
(* String.prototype.toLowerCase and includes, Array.prototype.includes.    *)
(***************************************************************************)
UpperCaseLetters == "ABCDEFGHIJKLMNOPQRSTUVWXYZ"
LowerCaseLetters == "abcdefghijklmnopqrstuvwxyz"

\* the position of a character in a string of distinct characters, or 0
IndexIn(letters, c) ==
    IF \E i \in 1..Len(letters) : SubSeq(letters, i, i) = c
    THEN CHOOSE i \in 1..Len(letters) : SubSeq(letters, i, i) = c
    ELSE 0

RECURSIVE toLowerCase(_)
toLowerCase(s) ==
    IF s = "" THEN ""
    ELSE LET k == IndexIn(UpperCaseLetters, Head(s))
         IN  (IF k = 0 THEN Head(s) ELSE SubSeq(LowerCaseLetters, k, k))
             \o toLowerCase(Tail(s))

\* s.includes(search): search occurs in s at some position
includes(s, search) ==
    \E i \in 0..(Len(s) - Len(search)) : SubSeq(s, i + 1, i + Len(search)) = search

arrayIncludes(list, x) == \E i \in DOMAIN list : list[i] = x

(***************************************************************************)
(* Numbers of the dashboard are written [n, d] like those of the           *)
(* aggregator (4.5 is 45/10): the order of the doubles nearest to two      *)
(* such decimals is the order of the fractions.                            *)
(***************************************************************************)
LessThan(x, y) == x.n * y.d < y.n * x.d

\* the sign of a - b, which is all that a comparator's caller reads
SignOfDifference(a, b) ==
    IF LessThan(a, b) THEN -1 ELSE IF LessThan(b, a) THEN 1 ELSE 0

(***************************************************************************)
(* String.prototype.localeCompare on names made of letters, spaces and     *)
(* hyphens that differ in more than their case: the first position where   *)
(* the two names differ, case ignored, decides, and a proper prefix comes   *)
(* first.                                                                  *)
(***************************************************************************)
CollationOrder == " -abcdefghijklmnopqrstuvwxyz"

RECURSIVE CompareFolded(_, _)
CompareFolded(a, b) ==
    IF a = "" /\ b = "" THEN 0
    ELSE IF a = "" THEN -1
    ELSE IF b = "" THEN 1
    ELSE IF Head(a) = Head(b) THEN CompareFolded(Tail(a), Tail(b))
    ELSE IF IndexIn(CollationOrder, Head(a)) < IndexIn(CollationOrder, Head(b))
         THEN -1 ELSE 1

localeCompare(a, b) == CompareFolded(toLowerCase(a), toLowerCase(b))

(***************************************************************************)
(* Dates.  new Date('YYYY-MM-DD') is midnight UTC of that day, written as  *)
(* hours since 1970-01-01T00:00Z; any other string gives an invalid date   *)
(* (NaN), which compares false with everything.  setHours(0, 0, 0, 0)      *)
(* moves a date to the start of its day in the time zone of the browser.   *)
(***************************************************************************)
Null == [t |-> "null", v |-> 0]

\* a string other than '' (null and '' are falsy)
IsSet(val) == val.t = "string" /\ val.v # ""

RECURSIVE NumberOfDigits(_, _)
NumberOfDigits(s, acc) ==
    IF s = "" THEN acc
    ELSE NumberOfDigits(Tail(s), 10 * acc + DigitValue(Head(s)))

IsLeapYear(y) == (y % 4 = 0 /\ y % 100 # 0) \/ y % 400 = 0

DaysInMonth(y, m) ==
    IF m = 2 THEN (IF IsLeapYear(y) THEN 29 ELSE 28)
    ELSE IF m \in {4, 6, 9, 11} THEN 30 ELSE 31

\* the number of days from 1970-01-01 to the day d of month m of year y
DaysFromCivil(y, m, d) ==
    LET yy == IF m <= 2 THEN y - 1 ELSE y
        era == yy \div 400
        yoe == yy - era * 400
        doy == (153 * (IF m > 2 THEN m - 3 ELSE m + 9) + 2) \div 5 + d - 1
        doe == yoe * 365 + yoe \div 4 - yoe \div 100 + doy
    IN  era * 146097 + doe - 719468

IsIsoDate(s) ==
    /\ Len(s) = 10
    /\ SubSeq(s, 5, 5) = "-"
    /\ SubSeq(s, 8, 8) = "-"
    /\ AllDigits(SubSeq(s, 1, 4) \o SubSeq(s, 6, 7) \o SubSeq(s, 9, 10))
    /\ LET y == NumberOfDigits(SubSeq(s, 1, 4), 0)
           m == NumberOfDigits(SubSeq(s, 6, 7), 0)
           d == NumberOfDigits(SubSeq(s, 9, 10), 0)
       IN  m \in 1..12 /\ d \in 1..DaysInMonth(y, m)

NewDate(s) ==
    IF IsIsoDate(s)
    THEN [nan |-> FALSE,
          time |-> 24 * DaysFromCivil(NumberOfDigits(SubSeq(s, 1, 4), 0),
                                      NumberOfDigits(SubSeq(s, 6, 7), 0),
                                      NumberOfDigits(SubSeq(s, 9, 10), 0))]
    ELSE [nan |-> TRUE, time |-> 0]

setHoursZero(date) ==
    IF date.nan THEN date
    ELSE [nan |-> FALSE,
          time |-> ((date.time + timezone) \div 24) * 24 - timezone]

DateLess(a, b) == ~a.nan /\ ~b.nan /\ a.time < b.time

DateLessOrEqual(a, b) == ~a.nan /\ ~b.nan /\ a.time <= b.time

(***************************************************************************)
(* The static list of hotels (lines 31-92) and the default filters of      *)
(* useHotelFilters (lines 27-46).                                          *)
(***************************************************************************)
HOTELS ==
    << [id |-> 1, name |-> "Agoda Palace", city |-> "Bangkok",
        price |-> IntNum(120), rating |-> Divide(45, 10),
        amenities |-> <<"Wi-Fi", "Pool", "Gym">>,
        availability |-> [checkIn |-> "2025-01-15", checkOut |-> "2025-01-20"]],
       [id |-> 2, name |-> "Seaside View", city |-> "Phuket",
        price |-> IntNum(80), rating |-> Divide(42, 10),
        amenities |-> <<"Wi-Fi", "Beach">>,
        availability |-> [checkIn |-> "2025-01-10", checkOut |-> "2025-01-25"]],
       [id |-> 3, name |-> "Mountain Stay", city |-> "Chiang Mai",
        price |-> IntNum(100), rating |-> Divide(48, 10),
        amenities |-> <<"Wi-Fi", "Gym", "Spa">>,
        availability |-> [checkIn |-> "2025-01-05", checkOut |-> "2025-01-30"]],
       [id |-> 4, name |-> "Urban Loft", city |-> "Bangkok",
        price |-> IntNum(150), rating |-> Divide(46, 10),
        amenities |-> <<"Wi-Fi", "Pool">>,
        availability |-> [checkIn |-> "2025-01-12", checkOut |-> "2025-01-18"]],
       [id |-> 5, name |-> "Tropical Resort", city |-> "Phuket",
        price |-> IntNum(200), rating |-> Divide(49, 10),
        amenities |-> <<"Wi-Fi", "Pool", "Beach", "Spa">>,
        availability |-> [checkIn |-> "2025-01-08", checkOut |-> "2025-01-22"]] >>

DEFAULT_FILTERS ==
    [search |-> "",
     priceRange |-> <<IntNum(0), IntNum(1000)>>,
     amenities |-> <<>>,
     minRating |-> IntNum(0),
     dateRange |-> [checkIn |-> Null, checkOut |-> Null],
     sort |-> [primary |-> [field |-> "price", order |-> "asc"],
               secondary |-> [field |-> Null, order |-> "asc"]]]

(***************************************************************************)
(* filteredHotels (lines 208-333): the callback of HOTELS.filter, part by  *)
(* part, then the sort of the hotels that pass.                            *)
(***************************************************************************)
\* lines 211-217
matchesSearch(hotel) ==
    debouncedSearch # "" =>
        LET searchLower == toLowerCase(debouncedSearch)
        IN  \/ includes(toLowerCase(hotel.name), searchLower)
            \/ includes(toLowerCase(hotel.city), searchLower)

\* line 220
inPriceRange(hotel) ==
    ~ (\/ LessThan(hotel.price, filters.priceRange[1])
       \/ LessThan(filters.priceRange[2], hotel.price))

\* variant: one of the selected amenities is enough
hasSomeAmenity(hotel) ==
    Len(filters.amenities) > 0 =>
        \E i \in DOMAIN filters.amenities :
            arrayIncludes(hotel.amenities, filters.amenities[i])

\* lines 225-230
hasAllAmenities(hotel) ==
    Len(filters.amenities) > 0 =>
        \A i \in DOMAIN filters.amenities :
            arrayIncludes(hotel.amenities, filters.amenities[i])

\* line 233
hasMinRating(hotel) == ~LessThan(hotel.rating, filters.minRating)

\* variant: a check-out on the day of the check-in passes
validateDateRangeOrSame(checkIn, checkOut) ==
    IF ~IsSet(checkIn) \/ ~IsSet(checkOut) THEN TRUE
    ELSE DateLessOrEqual(NewDate(checkIn.v), NewDate(checkOut.v))

\* lines 197-205
validateDateRange(checkIn, checkOut) ==
    IF ~IsSet(checkIn) \/ ~IsSet(checkOut) THEN TRUE
    ELSE DateLess(NewDate(checkIn.v), NewDate(checkOut.v))

\* lines 238-281
matchesDateRange(hotel) ==
    LET checkIn == filters.dateRange.checkIn
        checkOut == filters.dateRange.checkOut
        hotelCheckIn == setHoursZero(NewDate(hotel.availability.checkIn))
        hotelCheckOut == setHoursZero(NewDate(hotel.availability.checkOut))
    IN  IF IsSet(checkIn) /\ IsSet(checkOut)
        THEN /\ validateDateRange(checkIn, checkOut)
             /\ DateLess(setHoursZero(NewDate(checkIn.v)), hotelCheckOut)
             /\ DateLess(hotelCheckIn, setHoursZero(NewDate(checkOut.v)))
        ELSE IF IsSet(checkIn)
        THEN LET checkInDate == setHoursZero(NewDate(checkIn.v))
             IN  ~ (\/ DateLess(checkInDate, hotelCheckIn)
                    \/ DateLessOrEqual(hotelCheckOut, checkInDate))
        ELSE IF IsSet(checkOut)
        THEN LET checkOutDate == setHoursZero(NewDate(checkOut.v))
             IN  ~ (\/ DateLessOrEqual(checkOutDate, hotelCheckIn)
                    \/ DateLess(hotelCheckOut, checkOutDate))
        ELSE TRUE

passesFilters(hotel) ==
    /\ matchesSearch(hotel)
    /\ inPriceRange(hotel)
    /\ hasAllAmenities(hotel)
    /\ hasMinRating(hotel)
    /\ matchesDateRange(hotel)

\* lines 290-301 and 307-319: the comparison of two hotels by one sort key
compareBy(a, b, key) ==
    LET comparison ==
            IF key.field = "price" THEN SignOfDifference(a.price, b.price)
            ELSE IF key.field = "rating" THEN SignOfDifference(a.rating, b.rating)
            ELSE IF key.field = "name" THEN localeCompare(a.name, b.name)
            ELSE 0
    IN  IF key.order = "desc" THEN -comparison ELSE comparison

\* lines 287-322: the comparator of the sort
compareHotels(a, b) ==
    LET comparison == compareBy(a, b, filters.sort.primary)
    IN  IF comparison = 0 /\ IsSet(filters.sort.secondary.field)
        THEN compareBy(a, b, [field |-> filters.sort.secondary.field.v,
                              order |-> filters.sort.secondary.order])
        ELSE comparison

RECURSIVE hotelSortInsert(_, _)
hotelSortInsert(sorted, x) ==
    IF sorted = <<>> THEN <<x>>
    ELSE IF compareHotels(sorted[Len(sorted)], x) > 0
         THEN Append(hotelSortInsert(SubSeq(sorted, 1, Len(sorted) - 1), x),
                     sorted[Len(sorted)])
         ELSE Append(sorted, x)

RECURSIVE hotelSortFrom(_, _, _)
hotelSortFrom(sorted, list, k) ==
    IF k > Len(list) THEN sorted
    ELSE hotelSortFrom(hotelSortInsert(sorted, list[k]), list, k + 1)

\* the hotels that pass the filters, in the order of HOTELS, then sorted
filteredHotels ==
    hotelSortFrom(<<>>, SelectSeq(HOTELS, passesFilters), 1)

(***************************************************************************)
(* Inputs.  A booking has id, category, location {city, country}, price    *)
(* and optionally nights and passengers; a field given as Undefined is     *)
(* absent from the object.                                                 *)
(***************************************************************************)
Present(o) == [f \in {g \in DOMAIN o : o[g].t # "undefined"} |-> o[f]]

Booking(category, city, price, nights, passengers) ==
    Present([category |-> category,
             location |-> Obj(Present([city |-> city, country |-> Str("TH")])),
             price |-> price,
             nights |-> nights,
             passengers |-> passengers])

WithIds(body) == [i \in DOMAIN body |-> ("id" :> Num(i)) @@ body[i]]

ListsUpTo(family, max) == UNION {[1..n -> family] : n \in 0..max}

Lists(family) == ListsUpTo(family, MaxLen)

ArrayOf(paths) == [t |-> "array", v |-> paths]

SortFields == {"price", "nights", "passengers"}
SortBys == [field : SortFields, order : {"asc", "desc"}]

\* bookings that differ in their numbers
NumericBookings ==
    {Booking(Str("Hotel"), Str("Bangkok"), Num(p), n, Undefined) :
        p \in (-1)..MaxVal, n \in {Undefined, Num(1)}}

\* bookings that differ in their strings
TextBookings ==
    {Booking(Str(c), y, Num(1), Undefined, Undefined) :
        c \in {"Hotel", "Flight", "7"}, y \in {Str("Bangkok"), Undefined}}

\* grouping: bookings that differ in their strings, by one or two paths,
\* and bookings that differ in their numbers, by a path with number values
TextOptions ==
    [groupBy : {ArrayOf(<<"category">>), Str("category"),
                ArrayOf(<<"category", "location.city">>),
                ArrayOf(<<"location.city", "category">>)},
     aggregations : {[price |-> "sum", passengers |-> "count"]},
     sortBy : {[field |-> "nights", order |-> "desc"]}]

KeyOptions ==
    [groupBy : {ArrayOf(<<"price">>), ArrayOf(<<"nights">>)},
     aggregations : {[price |-> "sum", nights |-> "avg"]},
     sortBy : {[field |-> "price", order |-> "desc"]}]

Inputs ==
    (Lists(TextBookings) \X TextOptions)
    \cup (Lists(NumericBookings) \X KeyOptions)

\* aggregation: every kind, on a field that is 0 in some records (price)
\* and on fields that some or all records lack (nights, passengers)
Aggregations ==
    { [price |-> "sum", passengers |-> "count"],
      [price |-> "sum", nights |-> "avg"],
      [price |-> "avg", nights |-> "sum"],
      [price |-> "min", nights |-> "max"],
      [price |-> "max", nights |-> "min"],
      [price |-> "count", nights |-> "count"],
      [price |-> "sum", id |-> "count"] }

AggInputs ==
    Lists(NumericBookings)
    \X [groupBy : {ArrayOf(<<"nights">>)},
        aggregations : Aggregations,
        sortBy : {[field |-> "price", order |-> "desc"]}]

\* sorting: one bucket of all the bookings, every sort field and order
SortInputs ==
    Lists(NumericBookings)
    \X [groupBy : {ArrayOf(<<"category">>)},
        aggregations : {[price |-> "sum", nights |-> "avg"]},
        sortBy : SortBys]

(***************************************************************************)
(* transformData as a state machine.                                       *)
(***************************************************************************)
Call(inputs) ==
    /\ \E in \in inputs :
          /\ arr = WithIds(in[1])
          /\ heap = (InputArray :> [i \in DOMAIN in[1] |-> i])
          /\ options = in[2]
    /\ pc = "start"
    /\ allGroupBy = <<>>
    /\ gi = 0
    /\ groupedData = <<>>
    /\ entries = <<>>
    /\ results = <<>>
    /\ returned = <<>>
    /\ calls = 1

\* the module is imported with the inputs of its call, and the dashboard
\* is as before its component is rendered
Start(inputs) ==
    /\ Call(inputs)
    /\ filters = DEFAULT_FILTERS
    /\ debouncedSearch = ""
    /\ timezone = 0
    /\ location = ""
    /\ localStorage = Null
    /\ mounted = FALSE
    /\ deps = <<>>

\* variant: a string is not wrapped, so that the loop over it takes its
\* characters one by one
AllGroupByOfCharacters(groupBy) ==
    IF groupBy.t = "string"
    THEN [i \in 1..Len(groupBy.v) |-> SubSeq(groupBy.v, i, i)]
    ELSE groupBy.v

\* lines 975-979: a single path becomes a list of one path
AllGroupByOf(groupBy) ==
    IF groupBy.t = "string" THEN <<groupBy.v>> ELSE groupBy.v

\* variant: results is a variable of the module and not of the call, so
\* that it is not emptied at line 971
NormalizeKeepingResults ==
    /\ pc = "start"
    /\ allGroupBy' = AllGroupByOf(options.groupBy)
    /\ gi' = 1
    /\ pc' = "for"
    /\ UNCHANGED <<arr, heap, options, groupedData, entries, results, returned,
                   calls>>
    /\ UNCHANGED dashboardVars

\* lines 970-979: destructure the options and normalise groupBy to a list
Normalize ==
    /\ pc = "start"
    /\ allGroupBy' = AllGroupByOf(options.groupBy)
    /\ results' = <<>>
    /\ gi' = 1
    /\ pc' = "for"
    /\ UNCHANGED <<arr, heap, options, groupedData, entries, returned, calls>>
    /\ UNCHANGED dashboardVars

\* lines 982-990: group the whole input by the next path and list the groups
GroupStep ==
    /\ pc = "for"
    /\ gi <= Len(allGroupBy)
    /\ LET g == lGroupBy(allGroupBy[gi])
       IN  /\ groupedData' = g.obj
           /\ heap' = g.heap
    /\ entries' = ObjectEntries(groupedData')
    /\ pc' = "entries"
    /\ UNCHANGED <<arr, options, allGroupBy, gi, results, returned, calls>>
    /\ UNCHANGED dashboardVars

\* lines 990-1021: aggregate and sort one group and push its entry; the sort
\* is in place, on the array that groupedData holds for the key
EntryStep ==
    /\ pc = "entries"
    /\ entries # <<>>
    /\ LET key == Head(entries).key
           items == Head(entries).items
       IN  /\ results' = Append(results,
                                MakeResult(allGroupBy[gi], key, items, options))
           /\ heap' = [heap EXCEPT ![items] = ArraySort(@, options.sortBy)]
    /\ entries' = Tail(entries)
    /\ UNCHANGED <<arr, options, pc, allGroupBy, gi, groupedData, returned,
                   calls>>
    /\ UNCHANGED dashboardVars

\* line 982: the groups of this path are exhausted, take the next path
NextGroup ==
    /\ pc = "entries"
    /\ entries = <<>>
    /\ gi' = gi + 1
    /\ pc' = "for"
    /\ UNCHANGED <<arr, heap, options, allGroupBy, groupedData, entries,
                   results, returned, calls>>
    /\ UNCHANGED dashboardVars

\* line 1024
Return ==
    /\ pc = "for"
    /\ gi > Len(allGroupBy)
    /\ pc' = "done"
    /\ UNCHANGED <<arr, heap, options, allGroupBy, gi, groupedData, entries,
                   results, returned, calls>>
    /\ UNCHANGED dashboardVars

Next == Normalize \/ GroupStep \/ EntryStep \/ NextGroup \/ Return

Spec == Start(Inputs) /\ [][Next]_vars

SpecAgg == Start(AggInputs) /\ [][Next]_vars

SpecSort == Start(SortInputs) /\ [][Next]_vars

(***************************************************************************)
(* A caller that calls transformData again on the same list, with the same *)
(* groupBy and aggregations and another sortBy, keeping the value the      *)
(* previous call returned (the module calls it on bookings at line 1063    *)
(* and its tests call it on bookings again).                               *)
(***************************************************************************)
CallBookings ==
    {Booking(Str("Hotel"), Str("Bangkok"), Num(p), n, Undefined) :
        p \in 1..MaxVal, n \in {Undefined, Num(1)}}

CallSortBys == [field : {"price", "nights"}, order : {"asc", "desc"}]

CallInputs ==
    Lists(CallBookings)
    \X [groupBy : {ArrayOf(<<"nights">>), ArrayOf(<<"price", "nights">>)},
        aggregations : {[price |-> "sum", nights |-> "avg"]},
        sortBy : CallSortBys]

CallAgain ==
    /\ pc = "done"
    /\ calls < MaxCalls
    /\ \E s \in CallSortBys \ {options.sortBy} :
          options' = [options EXCEPT !.sortBy = s]
    /\ returned' = results
    /\ calls' = calls + 1
    /\ pc' = "start"
    /\ allGroupBy' = <<>>
    /\ gi' = 0
    /\ groupedData' = <<>>
    /\ entries' = <<>>
    /\ results' = <<>>
    /\ UNCHANGED <<arr, heap>>
    /\ UNCHANGED dashboardVars

SpecCalls == Start(CallInputs) /\ [][Next \/ CallAgain]_vars

(***************************************************************************)
(* A caller that passes groupBy as a single string and then calls again on *)
(* the same list with the same path as a list of one element.              *)
(***************************************************************************)
FormInputs ==
    Lists(CallBookings)
    \X [groupBy : {Str("nights"), Str("price"), Str("location.city")},
        aggregations : {[price |-> "sum", nights |-> "avg"]},
        sortBy : {[field |-> "price", order |-> "desc"],
                  [field |-> "nights", order |-> "asc"]}]

CallAsList ==
    /\ pc = "done"
    /\ calls < MaxCalls
    /\ options.groupBy.t = "string"
    /\ options' = [options EXCEPT !.groupBy = ArrayOf(<<options.groupBy.v>>)]
    /\ returned' = results
    /\ calls' = calls + 1
    /\ pc' = "start"
    /\ allGroupBy' = <<>>
    /\ gi' = 0
    /\ groupedData' = <<>>
    /\ entries' = <<>>
    /\ results' = <<>>
    /\ UNCHANGED <<arr, heap>>
    /\ UNCHANGED dashboardVars

SpecForms == Start(FormInputs) /\ [][Next \/ CallAsList]_vars

(***************************************************************************)
(* Buckets large enough for the rounding of the average to show: one       *)
(* category, prices 0, 4 or 5, lists of up to AvgLen bookings.             *)
(***************************************************************************)
AvgPrices == {0, 4, 5}

AvgBookings ==
    {Booking(Str("Hotel"), Str("Bangkok"), Num(p), Undefined, Undefined) :
        p \in AvgPrices}

AvgInputs ==
    ListsUpTo(AvgBookings, AvgLen)
    \X [groupBy : {ArrayOf(<<"category">>)},
        aggregations : {[price |-> "avg"]},
        sortBy : {[field |-> "price", order |-> "desc"]}]

SpecAvg == Start(AvgInputs) /\ [][Next]_vars

(***************************************************************************)
(* Bookings in which a group path does not resolve: no nights, a location  *)
(* without a city, or no location at all.                                  *)
(***************************************************************************)
MissingBookings ==
    {Present([category |-> Str("Hotel"),
              location |-> l,
              price |-> Num(1),
              nights |-> n]) :
        l \in {Obj([city |-> Str("Bangkok"), country |-> Str("TH")]),
               Obj([country |-> Str("TH")]),
               Undefined},
        n \in {Undefined, Num(1)}}

MissingInputs ==
    Lists(MissingBookings)
    \X [groupBy : {ArrayOf(<<"location.city">>), ArrayOf(<<"nights">>),
                   ArrayOf(<<"nights", "location.city">>)},
        aggregations : {[price |-> "sum", nights |-> "avg"]},
        sortBy : {[field |-> "price", order |-> "desc"]}]

SpecMissing == Start(MissingInputs) /\ [][Next]_vars

(***************************************************************************)
(* Aggregations with a kind that is none of sum, avg, min, max, count (the *)
(* type Aggregates of lines 900-904 is erased at run time).                *)
(***************************************************************************)
UnknownInputs ==
    Lists(NumericBookings)
    \X [groupBy : {ArrayOf(<<"nights">>)},
        aggregations : {[price |-> "median", nights |-> "sum"],
                        [price |-> "Sum", nights |-> "total"]},
        sortBy : {[field |-> "price", order |-> "asc"],
                  [field |-> "price", order |-> "desc"]}]

SpecUnknown == Start(UnknownInputs) /\ [][Next]_vars

(***************************************************************************)
(* The sample list bookings (lines 1028-1061) under the options of the     *)
(* module's own call (lines 1063-1069), of its two tests, and others.      *)
(***************************************************************************)
bookings ==
    << [id |-> Num(1), category |-> Str("Hotel"),
        location |-> Obj([city |-> Str("Bangkok"), country |-> Str("TH")]),
        price |-> Num(120), nights |-> Num(2)],
       [id |-> Num(2), category |-> Str("Flight"),
        location |-> Obj([city |-> Str("Tokyo"), country |-> Str("JP")]),
        price |-> Num(450), passengers |-> Num(1)],
       [id |-> Num(3), category |-> Str("Hotel"),
        location |-> Obj([city |-> Str("Bangkok"), country |-> Str("TH")]),
        price |-> Num(80), nights |-> Num(3)],
       [id |-> Num(4), category |-> Str("Hotel"),
        location |-> Obj([city |-> Str("Dubai"), country |-> Str("AE")]),
        price |-> Num(200), nights |-> Num(1)],
       [id |-> Num(5), category |-> Str("Flight"),
        location |-> Obj([city |-> Str("Bangkok"), country |-> Str("TH")]),
        price |-> Num(300), passengers |-> Num(2)] >>

SampleInputs ==
    {bookings}
    \X [groupBy : {ArrayOf(<<"category">>),
                   ArrayOf(<<"category", "location.city">>),
                   ArrayOf(<<"location.country">>)},
        aggregations : {[price |-> "sum", passengers |-> "count"],
                        [price |-> "sum", nights |-> "avg"],
                        [price |-> "max", nights |-> "min"]},
        sortBy : SortBys]

SpecSample == Start(SampleInputs) /\ [][Next]_vars

(***************************************************************************)
(* The module's own call on bookings when it is imported (lines 1063-1069) *)
(* and the calls that a test or another module makes on bookings later.    *)
(***************************************************************************)
answerOptions ==
    [groupBy |-> ArrayOf(<<"category", "location.city">>),
     aggregations |-> [price |-> "sum", nights |-> "avg"],
     sortBy |-> [field |-> "price", order |-> "desc"]]

\* a later call on bookings with any of the sample options, lines 965-969:
\* the caller keeps what the call before returned, and the call begins at
\* line 970, where Normalize gives it its own allGroupBy and results
CallLater ==
    /\ pc = "done"
    /\ calls < MaxCalls
    /\ \E in \in SampleInputs : options' = in[2]
    /\ returned' = results
    /\ calls' = calls + 1
    /\ pc' = "start"
    /\ gi' = 0
    /\ UNCHANGED <<arr, heap, allGroupBy, groupedData, entries, results>>
    /\ UNCHANGED dashboardVars

SpecImport == Start({<<bookings, answerOptions>>}) /\ [][Next \/ CallLater]_vars

(***************************************************************************)
(* Field paths that are also the names of the other properties of an       *)
(* entry: groupBy is typed string | string[] (line 966), so a caller may   *)
(* group by count, items or aggregates.                                    *)
(***************************************************************************)
NameInputs ==
    Lists(TextBookings)
    \X [groupBy : {Str("count"), ArrayOf(<<"category", "items">>),
                   ArrayOf(<<"aggregates", "location.city">>)},
        aggregations : {[price |-> "sum", nights |-> "avg"]},
        sortBy : {[field |-> "price", order |-> "desc"],
                  [field |-> "nights", order |-> "asc"]}]

SpecNames == Start(NameInputs) /\ [][Next]_vars

(***************************************************************************)
(* The dashboard as a state machine: the module is imported (which runs    *)
(* transformData on bookings, lines 1063-1069), the component is rendered  *)
(* with the filters the hook starts from, and then its event handlers run  *)
(* in any order.                                                           *)
(***************************************************************************)
\* parseFloat on an unsigned decimal numeral: the longest prefix of digits,
\* a point and digits; NaN when there is no digit
RECURSIVE DigitPrefix(_)
DigitPrefix(s) ==
    IF s = "" \/ DigitValue(Head(s)) < 0 THEN ""
    ELSE Head(s) \o DigitPrefix(Tail(s))

RECURSIVE PowerOfTen(_)
PowerOfTen(k) == IF k = 0 THEN 1 ELSE 10 * PowerOfTen(k - 1)

parseFloat(s) ==
    LET whole == DigitPrefix(s)
        rest == SubSeq(s, Len(whole) + 1, Len(s))
        fraction == IF rest # "" /\ Head(rest) = "." THEN DigitPrefix(Tail(rest))
                    ELSE ""
    IN  IF whole = "" /\ fraction = "" THEN NaN
        ELSE Divide(NumberOfDigits(whole \o fraction, 0),
                    PowerOfTen(Len(fraction)))

isNaN(x) == x.d = 0 /\ x.n = 0

(***************************************************************************)
(* Text of the URL and of localStorage (useHotelFilters.ts).  Strings are  *)
(* printable ASCII without the grave accent; a character is a string of    *)
(* length one.  An operation that can throw returns [threw, value].        *)
(***************************************************************************)
\* the tables of the characters: codeOf a character (32..95 and 97..126),
\* charOf a code, hexOf a hexadecimal digit in either case, and the
\* characters that encodeURIComponent (component) and the serializer of
\* application/x-www-form-urlencoded (form) leave as they are
Ascii ==
    LET table == <<" !\"#$%&'()*+,-./0123456789:;<=>?@ABCDEFGHIJKLMNOPQRSTUVWXYZ[\\]^_",
                   "abcdefghijklmnopqrstuvwxyz{|}~">>
        RECURSIVE Codes(_, _)
        Codes(text, first) ==
            IF text = "" THEN << >>
            ELSE (Head(text) :> first) @@ Codes(Tail(text), first + 1)
        RECURSIVE Chars(_, _)
        Chars(text, first) ==
            IF text = "" THEN << >>
            ELSE (first :> Head(text)) @@ Chars(Tail(text), first + 1)
        SetOf(text) == {SubSeq(text, k, k) : k \in 1..Len(text)}
        alphaNumeric == SetOf(UpperCaseLetters \o LowerCaseLetters \o "0123456789")
    IN  [codeOf |-> Codes(table[1], 32) @@ Codes(table[2], 97),
         charOf |-> Chars(table[1], 32) @@ Chars(table[2], 97),
         hexOf |-> Codes("0123456789", 0) @@ Codes("ABCDEF", 10)
                   @@ Codes("abcdef", 10),
         component |-> alphaNumeric \cup SetOf("-_.!~*'()"),
         form |-> alphaNumeric \cup SetOf("*-._ ")]

\* the concatenation of the strings pieces[lo], ..., pieces[hi]
RECURSIVE Concat(_, _, _)
Concat(pieces, lo, hi) ==
    IF lo > hi THEN ""
    ELSE IF lo = hi THEN pieces[lo]
    ELSE Concat(pieces, lo, (lo + hi) \div 2)
         \o Concat(pieces, (lo + hi) \div 2 + 1, hi)

\* every character that is not in unescaped becomes % and its code in two
\* upper-case hexadecimal digits
PercentEncode(s, unescaped) ==
    Concat([i \in 1..Len(s) |->
               LET c == SubSeq(s, i, i)
                   k == Ascii.codeOf[c]
               IN  IF c \in unescaped THEN c
                   ELSE "%" \o SubSeq("0123456789ABCDEF", k \div 16 + 1, k \div 16 + 1)
                            \o SubSeq("0123456789ABCDEF", (k % 16) + 1, (k % 16) + 1)],
           1, Len(s))

\* %XX becomes the character of code XX.  strict: a % that is not followed
\* by two hexadecimal digits of a character throws (URIError); otherwise it
\* is kept as it is
PercentDecode(s, strict) ==
    LET Hex(i) == Ascii.hexOf[SubSeq(s, i, i)]
        Code(i) == 16 * Hex(i + 1) + Hex(i + 2)
        EscapeAt(i) == /\ i >= 1
                       /\ i + 2 <= Len(s)
                       /\ SubSeq(s, i, i) = "%"
                       /\ SubSeq(s, i + 1, i + 1) \in DOMAIN Ascii.hexOf
                       /\ SubSeq(s, i + 2, i + 2) \in DOMAIN Ascii.hexOf
                       /\ Code(i) \in DOMAIN Ascii.charOf
    IN  IF strict /\ \E i \in 1..Len(s) : SubSeq(s, i, i) = "%" /\ ~EscapeAt(i)
        THEN [threw |-> TRUE, value |-> ""]
        ELSE [threw |-> FALSE,
              value |-> Concat([i \in 1..Len(s) |->
                                   IF EscapeAt(i) THEN Ascii.charOf[Code(i)]
                                   ELSE IF EscapeAt(i - 1) \/ EscapeAt(i - 2)
                                   THEN ""
                                   ELSE SubSeq(s, i, i)],
                               1, Len(s))]

\* line 91
encodeURIComponent(s) == PercentEncode(s, Ascii.component)

\* line 64
decodeURIComponent(s) == PercentDecode(s, TRUE)

\* new URLSearchParams(search), lines 60 and 89: the list of the name and
\* value pairs of a query string (application/x-www-form-urlencoded)
URLSearchParams(search) ==
    LET query == IF search # "" /\ Head(search) = "?" THEN Tail(search)
                 ELSE search
        \* the pieces of s between the occurrences of the character sep
        Split(s, sep) ==
            LET at == {i \in 1..Len(s) : SubSeq(s, i, i) = sep}
                RECURSIVE From(_)
                From(start) ==
                    IF \A i \in at : i < start THEN <<SubSeq(s, start, Len(s))>>
                    ELSE LET next == CHOOSE i \in at :
                                        /\ i >= start
                                        /\ \A j \in at : j >= start => i <= j
                         IN  <<SubSeq(s, start, next - 1)>> \o From(next + 1)
            IN  From(1)
        pieces == SelectSeq(Split(query, "&"), LAMBDA p : p # "")
        Spaced(t) == Concat([i \in 1..Len(t) |->
                                IF SubSeq(t, i, i) = "+" THEN " "
                                ELSE SubSeq(t, i, i)], 1, Len(t))
        Decoded(t) == PercentDecode(Spaced(t), FALSE).value
        Pair(p) ==
            LET name == Split(p, "=")[1]
                value == SubSeq(p, Len(name) + 2, Len(p))
            IN  [name |-> Decoded(name), value |-> Decoded(value)]
    IN  [i \in DOMAIN pieces |-> Pair(pieces[i])]

\* urlParams.get(name), line 61: the first value of the name or null
urlParamsGet(params, name) ==
    IF \E i \in DOMAIN params : params[i].name = name
    THEN Str(params[CHOOSE i \in DOMAIN params :
                      /\ params[i].name = name
                      /\ \A j \in 1..(i - 1) : params[j].name # name].value)
    ELSE Null

\* urlParams.set(name, value), line 91: the first pair of the name takes
\* the value and the others of the name are removed, or a pair is appended
urlParamsSet(params, name, value) ==
    IF \E i \in DOMAIN params : params[i].name = name
    THEN LET first == CHOOSE i \in DOMAIN params :
                         /\ params[i].name = name
                         /\ \A j \in 1..(i - 1) : params[j].name # name
             kept == {i \in DOMAIN params : params[i].name # name \/ i = first}
             Nth(k) == CHOOSE i \in kept :
                          Cardinality({j \in kept : j < i}) = k - 1
         IN  [k \in 1..Cardinality(kept) |->
                 IF Nth(k) = first THEN [name |-> name, value |-> value]
                 ELSE params[Nth(k)]]
    ELSE Append(params, [name |-> name, value |-> value])

\* urlParams.toString(), line 95
RECURSIVE urlParamsToString(_)
urlParamsToString(params) ==
    IF params = <<>> THEN ""
    ELSE LET Plussed(t) == Concat([i \in 1..Len(t) |->
                                      IF SubSeq(t, i, i) = " " THEN "+"
                                      ELSE SubSeq(t, i, i)], 1, Len(t))
             Encoded(t) == Plussed(PercentEncode(t, Ascii.form))
         IN  Encoded(Head(params).name) \o "=" \o Encoded(Head(params).value)
             \o (IF Len(params) > 1 THEN "&" ELSE "")
             \o urlParamsToString(Tail(params))

(***************************************************************************)
(* JSON (lines 64, 75 and 90).  A JSON value is a tagged value: Str, Num   *)
(* of a fraction [n, d], Null, a boolean, ArrayOf a list, or an object     *)
(* with its keys in their order.  The texts read are those whose strings   *)
(* have no escapes but \" \\ and \/ and whose numerals have an exponent of  *)
(* at most ExactExponent or above OverflowExponent.                        *)
(***************************************************************************)
\* JSON.stringify(value), line 90; a number that is not finite gives null
RECURSIVE JSONstringify(_)
JSONstringify(val) ==
    LET \* Number::toString of a fraction with a finite decimal expansion
        NumberText(x) ==
            LET n == Abs(x.n)
                RECURSIVE Fraction(_)
                Fraction(rem) ==
                    IF rem = 0 THEN ""
                    ELSE Digits[((10 * rem) \div x.d) + 1]
                         \o Fraction((10 * rem) % x.d)
            IN  (IF x.n < 0 THEN "-" ELSE "")
                \o NumberToString(n \div x.d)
                \o (IF n % x.d = 0 THEN "" ELSE "." \o Fraction(n % x.d))
        Quote(s) ==
            "\"" \o Concat([i \in 1..Len(s) |->
                              IF SubSeq(s, i, i) \in {"\"", "\\"}
                              THEN "\\" \o SubSeq(s, i, i)
                              ELSE SubSeq(s, i, i)], 1, Len(s)) \o "\""
        Comma(i) == IF i > 1 THEN "," ELSE ""
    IN  CASE val.t = "string" -> Quote(val.v)
          [] val.t = "number" ->
                IF val.v.d = 0 THEN "null" ELSE NumberText(val.v)
          [] val.t = "boolean" -> IF val.v THEN "true" ELSE "false"
          [] val.t = "array" ->
                "[" \o Concat([i \in DOMAIN val.v |->
                                  Comma(i) \o JSONstringify(val.v[i])],
                              1, Len(val.v)) \o "]"
          [] val.t = "object" ->
                "{" \o Concat([i \in DOMAIN val.keys |->
                                  Comma(i) \o Quote(val.keys[i]) \o ":"
                                  \o JSONstringify(val.v[val.keys[i]])],
                              1, Len(val.keys)) \o "}"
          [] OTHER -> "null"

\* the exponents of the numerals of a JSON text that the parser takes: up
\* to ExactExponent the value is the exact fraction, and above the decimal
\* exponent of the largest double, 1.7976931348623157e308, it is Infinity
ExactExponent == 4
OverflowExponent == 308

\* the parser of JSON.parse, lines 64 and 75: the value that begins at
\* position i of the text, as [ok, val, next], next being the position
\* after it
RECURSIVE JSONValueAt(_, _)
JSONValueAt(text, i) ==
    LET Fail == [ok |-> FALSE, val |-> Null, next |-> 0]
        Found(val, next) == [ok |-> TRUE, val |-> val, next |-> next]
        At(j) == IF j >= 1 /\ j <= Len(text) THEN SubSeq(text, j, j) ELSE ""
        RECURSIVE Skip(_)
        Skip(j) == IF At(j) = " " THEN Skip(j + 1) ELSE j
        \* the string whose characters from j on follow those of acc
        RECURSIVE StringFrom(_, _)
        StringFrom(j, acc) ==
            IF At(j) = "" THEN Fail
            ELSE IF At(j) = "\"" THEN Found(Str(acc), j + 1)
            ELSE IF At(j) # "\\" THEN StringFrom(j + 1, acc \o At(j))
            ELSE IF At(j + 1) \in {"\"", "\\", "/"}
            THEN StringFrom(j + 2, acc \o At(j + 1))
            ELSE Fail
        \* a numeral with an exponent of at most ExactExponent digits of
        \* shift is taken exactly; one that is beyond the largest double
        \* (whole part not 0, exponent above OverflowExponent) is Infinity
        Number ==
            LET from == IF At(i) = "-" THEN i + 1 ELSE i
                whole == DigitPrefix(SubSeq(text, from, Len(text)))
                point == from + Len(whole)
                fraction == IF At(point) = "."
                            THEN DigitPrefix(SubSeq(text, point + 1, Len(text)))
                            ELSE ""
                mark == IF At(point) = "." THEN point + 1 + Len(fraction)
                        ELSE point
                exponent == At(mark) \in {"e", "E"}
                shiftAt == IF At(mark + 1) \in {"+", "-"} THEN mark + 2
                           ELSE mark + 1
                shift == IF exponent
                         THEN DigitPrefix(SubSeq(text, shiftAt, Len(text)))
                         ELSE ""
                next == IF exponent THEN shiftAt + Len(shift) ELSE mark
                size == NumberOfDigits(whole \o fraction, 0)
                signed == IF from > i THEN -size ELSE size
                by == NumberOfDigits(shift, 0)
            IN  IF \/ whole = ""
                   \/ (Len(whole) > 1 /\ Head(whole) = "0")
                   \/ (At(point) = "." /\ fraction = "")
                   \/ (exponent /\ shift = "")
                THEN Fail
                ELSE IF size = 0 THEN Found(Num(IntNum(0)), next)
                ELSE IF Len(shift) <= 3 /\ by <= ExactExponent
                THEN Found(Num(IF At(mark + 1) = "-"
                               THEN Divide(signed,
                                           PowerOfTen(Len(fraction) + by))
                               ELSE Divide(signed * PowerOfTen(by),
                                           PowerOfTen(Len(fraction)))),
                           next)
                ELSE IF /\ At(mark + 1) # "-"
                        /\ NumberOfDigits(whole, 0) > 0
                        /\ (Len(shift) > 3 \/ by > OverflowExponent)
                THEN Found(Num(Divide(signed, 0)), next)
                ELSE Fail
        Literal(word, val) ==
            IF /\ i + Len(word) - 1 <= Len(text)
               /\ SubSeq(text, i, i + Len(word) - 1) = word
            THEN Found(val, i + Len(word))
            ELSE Fail
        \* the elements of an array from the element at j, after those of acc
        RECURSIVE Elements(_, _)
        Elements(j, acc) ==
            LET element == JSONValueAt(text, j)
                after == Skip(element.next)
            IN  IF ~element.ok THEN Fail
                ELSE IF At(after) = ","
                THEN Elements(Skip(after + 1), Append(acc, element.val))
                ELSE IF At(after) = "]"
                THEN Found(ArrayOf(Append(acc, element.val)), after + 1)
                ELSE Fail
        \* the members of an object from the key at j; a key that occurs
        \* again keeps its place and takes the later value
        RECURSIVE Members(_, _, _)
        Members(j, keys, o) ==
            LET key == IF At(j) = "\"" THEN StringFrom(j + 1, "") ELSE Fail
                colon == Skip(key.next)
                member == IF key.ok /\ At(colon) = ":"
                          THEN JSONValueAt(text, Skip(colon + 1))
                          ELSE Fail
                after == Skip(member.next)
                keys2 == IF key.val.v \in DOMAIN o THEN keys
                         ELSE Append(keys, key.val.v)
                o2 == (key.val.v :> member.val) @@ o
            IN  IF ~member.ok THEN Fail
                ELSE IF At(after) = ","
                THEN Members(Skip(after + 1), keys2, o2)
                ELSE IF At(after) = "}"
                THEN Found([t |-> "object", v |-> o2, keys |-> keys2],
                           after + 1)
                ELSE Fail
    IN  CASE At(i) = "\"" -> StringFrom(i + 1, "")
          [] At(i) = "[" ->
                IF At(Skip(i + 1)) = "]"
                THEN Found(ArrayOf(<<>>), Skip(i + 1) + 1)
                ELSE Elements(Skip(i + 1), <<>>)
          [] At(i) = "{" ->
                IF At(Skip(i + 1)) = "}"
                THEN Found([t |-> "object", v |-> <<>>, keys |-> <<>>],
                           Skip(i + 1) + 1)
                ELSE Members(Skip(i + 1), <<>>, <<>>)
          [] At(i) = "t" -> Literal("true", [t |-> "boolean", v |-> TRUE])
          [] At(i) = "f" -> Literal("false", [t |-> "boolean", v |-> FALSE])
          [] At(i) = "n" -> Literal("null", Null)
          [] At(i) = "-" \/ DigitValue(At(i)) >= 0 -> Number
          [] OTHER -> Fail

\* JSON.parse(text), lines 64 and 75: [threw, value]; it throws
\* (SyntaxError) unless the whole text is one JSON value between spaces
JSONparse(text) ==
    LET RECURSIVE Skip(_)
        Skip(j) == IF j <= Len(text) /\ SubSeq(text, j, j) = " "
                   THEN Skip(j + 1) ELSE j
        top == JSONValueAt(text, Skip(1))
    IN  IF top.ok /\ Skip(top.next) = Len(text) + 1
        THEN [threw |-> FALSE, value |-> top.val]
        ELSE [threw |-> TRUE, value |-> Null]

(***************************************************************************)
(* useHotelFilters: the filters as JSON, the initial state (lines 55-83)   *)
(* and the persistence effect (lines 85-100).                              *)
(***************************************************************************)
\* line 49; localStorage is the entry of STORAGE_KEY (line 48)
URL_PARAMS_KEY == "filters"

\* the JSON value of a HotelFilters object (lines 6-25), with its keys in
\* the order of DEFAULT_FILTERS, which every spread of lines 65, 76, 103
\* and 123 keeps
\* (a rating or a price that was loaded as another JSON value than a
\* number is that value)
FiltersToJSON(f) ==
    LET Object(keys, o) == [t |-> "object", v |-> o, keys |-> keys]
    IN  Object(
            <<"search", "priceRange", "amenities", "minRating", "dateRange",
              "sort">>,
            [search |-> Str(f.search),
             priceRange |->
                 ArrayOf([i \in DOMAIN f.priceRange |->
                             IF "d" \in DOMAIN f.priceRange[i]
                             THEN Num(f.priceRange[i])
                             ELSE f.priceRange[i]]),
             amenities |->
                 ArrayOf([i \in DOMAIN f.amenities |-> Str(f.amenities[i])]),
             minRating |-> IF "d" \in DOMAIN f.minRating THEN Num(f.minRating)
                           ELSE f.minRating,
             dateRange |-> Object(<<"checkIn", "checkOut">>,
                                  [checkIn |-> f.dateRange.checkIn,
                                   checkOut |-> f.dateRange.checkOut]),
             sort |-> Object(
                 <<"primary", "secondary">>,
                 [primary |-> Object(<<"field", "order">>,
                                     [field |-> Str(f.sort.primary.field),
                                      order |-> Str(f.sort.primary.order)]),
                  secondary |-> Object(<<"field", "order">>,
                                       [field |-> f.sort.secondary.field,
                                        order |-> Str(f.sort.secondary.order)])])])

\* { ...DEFAULT_FILTERS, ...parsed }, lines 65 and 76: a parsed value that
\* is a number, a boolean or null has no property to spread.  FilterField
\* is the value of a field of HotelFilters as the component reads it, from
\* the JSON value of that type (lines 6-25); a text or a number that is
\* loaded as another JSON value, such as null, stays that value
SpreadOverDefaults(parsed) ==
    LET FilterField(name, json) ==
            CASE name = "search" -> IF json.t = "string" THEN json.v ELSE json
              [] name = "priceRange" ->
                    [i \in DOMAIN json.v |->
                        IF json.v[i].t = "number" THEN json.v[i].v
                        ELSE json.v[i]]
              [] name = "amenities" -> [i \in DOMAIN json.v |-> json.v[i].v]
              [] name = "minRating" ->
                    IF json.t = "number" THEN json.v ELSE json
              [] name = "dateRange" -> [checkIn |-> json.v["checkIn"],
                                        checkOut |-> json.v["checkOut"]]
              [] name = "sort" ->
                    [primary |-> [field |-> json.v["primary"].v["field"].v,
                                  order |-> json.v["primary"].v["order"].v],
                     secondary |-> [field |-> json.v["secondary"].v["field"],
                                    order |-> json.v["secondary"].v["order"].v]]
    IN  [name \in DOMAIN DEFAULT_FILTERS |->
            IF parsed.t = "object" /\ name \in DOMAIN parsed.v
            THEN FilterField(name, parsed.v[name])
            ELSE DEFAULT_FILTERS[name]]

\* variant: localStorage is read before the URL
initialFiltersStorageFirst(search, stored) ==
    LET urlFilters == urlParamsGet(URLSearchParams(search), URL_PARAMS_KEY)
        decoded == decodeURIComponent(urlFilters.v)
        fromUrl == IF decoded.threw THEN decoded ELSE JSONparse(decoded.value)
        fromStorage == JSONparse(stored.v)
    IN  IF IsSet(stored) /\ ~fromStorage.threw
        THEN SpreadOverDefaults(fromStorage.value)
        ELSE IF IsSet(urlFilters) /\ ~fromUrl.threw
        THEN SpreadOverDefaults(fromUrl.value)
        ELSE DEFAULT_FILTERS

\* the initializer of useState, lines 55-83, on a query string and a
\* localStorage entry; what decodeURIComponent or JSON.parse throws is
\* caught and the next source is tried
initialFilters(search, stored) ==
    LET urlFilters == urlParamsGet(URLSearchParams(search), URL_PARAMS_KEY)
        decoded == decodeURIComponent(urlFilters.v)
        fromUrl == IF decoded.threw THEN decoded ELSE JSONparse(decoded.value)
        fromStorage == JSONparse(stored.v)
    IN  IF IsSet(urlFilters) /\ ~fromUrl.threw
        THEN SpreadOverDefaults(fromUrl.value)
        ELSE IF IsSet(stored) /\ ~fromStorage.threw
        THEN SpreadOverDefaults(fromStorage.value)
        ELSE DEFAULT_FILTERS

MIN_PRICE == IntNum(80)
MAX_PRICE == IntNum(200)

\* what the user types, picks and drags
SearchTerms == {"", "bangkok", "BANGKOK"}
ToggledAmenities == {"Wi-Fi", "Gym", "Beach"}
SliderValues == {<<IntNum(90), IntNum(110)>>}
RatingInputs == {"4.5", "six"}
SortFieldNames == {"price", "rating", "name"}

\* handleSortChange(type, field, order) as the component calls it; order is
\* Undefined when the call leaves it out
SortChanges ==
    [type : {"primary"}, field : {Str(f) : f \in SortFieldNames},
     order : {Undefined, Str("desc")}]
    \cup [type : {"secondary"}, field : {Str("name")}, order : {Str("desc")}]

\* where the browser is and what the hook starts from: the defaults, or the
\* defaults overlaid by what the URL or localStorage holds
Browsers ==
    {[timezone |-> 7, loaded |-> << >>],
     [timezone |-> -5,
      loaded |-> [dateRange |-> [checkIn |-> Str("2025-01-19"),
                                 checkOut |-> Str("2025-01-21")],
                  sort |-> [primary |-> [field |-> "price", order |-> "asc"],
                            secondary |-> [field |-> Str("name"),
                                           order |-> "desc"]]]]}

InitDashboard ==
    /\ Call({<<bookings, answerOptions>>})
    /\ \E browser \in Browsers :
          /\ filters = [f \in DOMAIN DEFAULT_FILTERS |->
                           IF f \in DOMAIN browser.loaded THEN browser.loaded[f]
                           ELSE DEFAULT_FILTERS[f]]
          /\ timezone = browser.timezone
    /\ debouncedSearch = ""
    /\ location = ""
    /\ localStorage = Null
    /\ mounted = TRUE
    /\ deps = <<>>

\* the component renders once the module has been evaluated and the hook
\* has its initial state
Rendered == pc = "done" /\ mounted

\* updateFilters (useHotelFilters.ts lines 102-104): { ...prev, ...updates }
updateFilters(updates) ==
    [f \in DOMAIN filters |->
        IF f \in DOMAIN updates THEN updates[f] ELSE filters[f]]

\* lines 348-353
handleSearchChange ==
    /\ Rendered
    /\ \E value \in SearchTerms : filters' = updateFilters([search |-> value])
    /\ UNCHANGED <<debouncedSearch, timezone, location, localStorage, mounted,
                   deps, transformVars>>

\* useDebounce(filters.search, 300), line 190: the debounced value takes
\* the value of the search term once it has stayed the same for the delay
Debounce ==
    /\ Rendered
    /\ debouncedSearch # filters.search
    /\ debouncedSearch' = filters.search
    /\ UNCHANGED <<filters, timezone, location, localStorage, mounted, deps,
                   transformVars>>

\* lines 355-360
handlePriceRangeChange ==
    /\ Rendered
    /\ \E values \in SliderValues :
          filters' = updateFilters(
              [priceRange |-> <<IF Len(values) >= 1 THEN values[1] ELSE MIN_PRICE,
                                IF Len(values) >= 2 THEN values[2] ELSE MAX_PRICE>>])
    /\ UNCHANGED <<debouncedSearch, timezone, location, localStorage, mounted,
                   deps, transformVars>>

\* useHotelFilters.ts lines 118-125
toggleAmenity ==
    /\ Rendered
    /\ \E amenity \in ToggledAmenities :
          filters' = [filters EXCEPT !.amenities =
                         IF arrayIncludes(@, amenity)
                         THEN SelectSeq(@, LAMBDA a : a # amenity)
                         ELSE Append(@, amenity)]
    /\ UNCHANGED <<debouncedSearch, timezone, location, localStorage, mounted,
                   deps, transformVars>>

\* lines 362-370
handleRatingChange ==
    /\ Rendered
    /\ \E text \in RatingInputs :
          LET value == parseFloat(text)
          IN  IF /\ ~isNaN(value)
                 /\ ~LessThan(value, IntNum(0))
                 /\ ~LessThan(IntNum(5), value)
              THEN filters' = updateFilters([minRating |-> value])
              ELSE UNCHANGED filters
    /\ UNCHANGED <<debouncedSearch, timezone, location, localStorage, mounted,
                   deps, transformVars>>

\* lines 396-418
handleSortChange ==
    /\ Rendered
    /\ \E call \in SortChanges :
          IF call.type = "primary" /\ IsSet(call.field)
          THEN filters' = updateFilters(
                   [sort |-> [filters.sort EXCEPT !.primary =
                       [field |-> call.field.v,
                        order |-> IF call.order.t = "undefined"
                                  THEN filters.sort.primary.order
                                  ELSE call.order.v]]])
          ELSE IF call.type = "secondary"
          THEN filters' = updateFilters(
                   [sort |-> [filters.sort EXCEPT !.secondary =
                       [field |-> call.field,
                        order |-> IF call.order.t = "undefined"
                                  THEN filters.sort.secondary.order
                                  ELSE call.order.v]]])
          ELSE UNCHANGED filters
    /\ UNCHANGED <<debouncedSearch, timezone, location, localStorage, mounted,
                   deps, transformVars>>

\* useHotelFilters.ts lines 139-141
clearAllFilters ==
    /\ Rendered
    /\ filters' = DEFAULT_FILTERS
    /\ UNCHANGED <<debouncedSearch, timezone, location, localStorage, mounted,
                   deps, transformVars>>

\* what the user picks in the two date inputs, or passes to the handler
DateChanges ==
    [type : {"checkIn", "checkOut"},
     value : {"", "2025-01-19", "2025-01-21", "soon"}]

\* lines 372-394
handleDateChange ==
    /\ Rendered
    /\ \E call \in DateChanges :
          LET newDateRange ==
                  [filters.dateRange EXCEPT ![call.type] =
                      IF call.value # "" THEN Str(call.value) ELSE Null]
          IN  IF /\ IsSet(newDateRange.checkIn)
                 /\ IsSet(newDateRange.checkOut)
                 /\ ~validateDateRange(newDateRange.checkIn,
                                       newDateRange.checkOut)
              THEN UNCHANGED filters
              ELSE filters' = updateFilters([dateRange |-> newDateRange])
    /\ UNCHANGED <<debouncedSearch, timezone, location, localStorage, mounted,
                   deps, transformVars>>

SpecDashboard ==
    /\ InitDashboard
    /\ [][\/ Next
          \/ handleSearchChange
          \/ Debounce
          \/ handlePriceRangeChange
          \/ toggleAmenity
          \/ handleRatingChange
          \/ handleSortChange
          \/ clearAllFilters]_vars

(***************************************************************************)
(* The hook in a browser: the module is imported, the component is         *)
(* rendered for the first time, which initialises the filters from the URL *)
(* and localStorage, and the persistence effect runs after the first       *)
(* render and after every render with other filters.  A handler runs on an *)
(* event, after the effect of the render before it has run.                *)
(***************************************************************************)
\* the query string and the localStorage entry the page is opened with
Sources ==
    { [search |-> "", stored |-> Str("{\"search\": \"a\\\"b c&d=%\\\\\"}")],
      [search |-> "?page=2", stored |-> Null],
      [search |-> "?filters=%7B%22search%22%3A%22bangkok%22%7D",
       stored |-> Str("{\"amenities\":[\"Gym\"]}")],
      [search |-> "?page=2&filters=%257B%2522minRating%2522%253A4.5%257D",
       stored |-> Null],
      [search |-> "?filters=%7B%22search%22%3A",
       stored |-> Str("{\"dateRange\":{\"checkIn\":\"2025-01-21\",\"checkOut\":\"2025-01-19\"}}")],
      [search |-> "?filters=%25E0%25A4%25A",
       stored |-> Str("{\"amenities\":[\"Gym\"]")],
      [search |-> "?filters=5",
       stored |-> Str("{\"amenities\":[\"Gym\"]}")],
      [search |-> "?filters=%7B%22minRating%22%3A1e999%7D", stored |-> Null],
      [search |-> "?filters=",
       stored |-> Str("{\"priceRange\":[90,110],\"sort\":{\"primary\":{\"field\":\"rating\",\"order\":\"desc\"},\"secondary\":{\"field\":\"name\",\"order\":\"asc\"}}}")] }

InitHook ==
    /\ Call({<<bookings, answerOptions>>})
    /\ \E source \in Sources :
          /\ location = source.search
          /\ localStorage = source.stored
    /\ filters = DEFAULT_FILTERS
    /\ debouncedSearch = ""
    /\ timezone = 0
    /\ mounted = FALSE
    /\ deps = <<>>

\* the first render: useState runs its initializer (lines 55-83)
Mount ==
    /\ pc = "done"
    /\ ~mounted
    /\ mounted' = TRUE
    /\ filters' = initialFilters(location, localStorage)
    /\ UNCHANGED <<debouncedSearch, timezone, location, localStorage, deps,
                   transformVars>>

\* the effect of lines 86-100, which runs when filters is not the value it
\* last ran for (when it runs again for filters of the same value it
\* writes what is there already)
Persist ==
    /\ mounted
    /\ deps # <<filters>>
    /\ LET filtersString == JSONstringify(FiltersToJSON(filters))
       IN  /\ location' = "?" \o urlParamsToString(
                              urlParamsSet(URLSearchParams(location),
                                           URL_PARAMS_KEY,
                                           encodeURIComponent(filtersString)))
           /\ localStorage' = Str(filtersString)
    /\ deps' = <<filters>>
    /\ UNCHANGED <<filters, debouncedSearch, timezone, mounted, transformVars>>

SpecHook ==
    /\ InitHook
    /\ [][\/ Next
          \/ Mount
          \/ Persist
          \/ deps = <<filters>> /\ toggleAmenity
          \/ deps = <<filters>> /\ handleDateChange
          \/ deps = <<filters>> /\ clearAllFilters]_vars

(***************************************************************************)
(* Vocabulary of the properties, stated on the input and the result alone. *)
(***************************************************************************)
Done == pc = "done"

Refs == 1..Len(arr)

\* the group key of input record i for a field path
KeyOf(i, path) == ToPropertyKey(get(arr[i], path, Undefined))

KeysOf(path) == {KeyOf(i, path) : i \in Refs}

\* the entries of the k-th field path are those after the entries of the
\* paths before it, one per distinct key
RECURSIVE EntriesBefore(_)
EntriesBefore(k) ==
    IF k <= 1 THEN 0
    ELSE EntriesBefore(k - 1) + Cardinality(KeysOf(allGroupBy[k - 1]))

EntriesOfPath(k) ==
    {e \in DOMAIN results :
        e > EntriesBefore(k) /\ e <= EntriesBefore(k + 1)}

\* the items of the e-th entry: the references its array holds
Items(e) == heap[results[e]["items"]]

\* the positions of record i in the items of the entries of the k-th path
Occurrences(i, k) ==
    {<<e, j>> \in EntriesOfPath(k) \X (1..Len(arr)) :
        j \in DOMAIN Items(e) /\ Items(e)[j] = i}

\* C1: the entries of one field path hold every input record exactly once
\* and hold nothing but input records (an exact partition of the input)
C1_Partition ==
    Done =>
        \A k \in DOMAIN allGroupBy :
            /\ \A i \in Refs : Cardinality(Occurrences(i, k)) = 1
            /\ \A e \in EntriesOfPath(k) :
                  /\ Range(Items(e)) \subseteq Refs
                  /\ Len(Items(e)) <= Len(arr)

C1_Witness ==
    /\ Done
    /\ Len(arr) >= 3
    /\ \E e1, e2 \in EntriesOfPath(1) :
          /\ e1 # e2
          /\ Len(Items(e1)) >= 2

\* the first input position at which a key of a path occurs
FirstSeen(key, path) ==
    CHOOSE i \in Refs :
        /\ KeyOf(i, path) = key
        /\ \A h \in Refs : KeyOf(h, path) = key => i <= h

\* C2: the entries of one field path are in the order in which their keys
\* are first met in the input, whatever the kind of the group value
C2_FirstSeenOrder ==
    Done =>
        \A k \in DOMAIN allGroupBy :
            \A e1, e2 \in EntriesOfPath(k) :
                e1 < e2 =>
                    FirstSeen(results[e1][allGroupBy[k]], allGroupBy[k])
                        < FirstSeen(results[e2][allGroupBy[k]], allGroupBy[k])

\* C3: several field paths give the concatenation of the groupings of the
\* whole input by each path alone: one entry per distinct key of the path,
\* holding exactly the records that have this key for this path
C3_Concatenation ==
    Done =>
        /\ Len(results) = EntriesBefore(Len(allGroupBy) + 1)
        /\ \A k \in DOMAIN allGroupBy :
              /\ \A e \in EntriesOfPath(k) :
                    /\ allGroupBy[k] \in DOMAIN results[e]
                    /\ Range(Items(e)) =
                          {i \in Refs : KeyOf(i, allGroupBy[k]) = results[e][allGroupBy[k]]}
              /\ {results[e][allGroupBy[k]] : e \in EntriesOfPath(k)}
                    = KeysOf(allGroupBy[k])

C3_Witness ==
    /\ Done
    /\ Len(allGroupBy) = 2
    /\ Cardinality(KeysOf(allGroupBy[1])) >= 2
    /\ Cardinality(KeysOf(allGroupBy[2])) >= 2
    /\ Len(results) = Cardinality(KeysOf(allGroupBy[1])) + Cardinality(KeysOf(allGroupBy[2]))
    /\ \E i, h \in Refs :
          /\ KeyOf(i, allGroupBy[1]) = KeyOf(h, allGroupBy[1])
          /\ KeyOf(i, allGroupBy[2]) # KeyOf(h, allGroupBy[2])

(***************************************************************************)
(* Aggregation and sorting, stated on the records themselves.              *)
(***************************************************************************)
\* the number a record holds in a top-level field, a missing field being 0
FieldValue(i, f) == IF f \in DOMAIN arr[i] THEN arr[i][f].v ELSE 0

\* the positions of an entry's items whose field is neither 0 nor missing
NonZero(e, f) ==
    {j \in DOMAIN Items(e) : FieldValue(Items(e)[j], f) # 0}

RECURSIVE SumAt(_, _, _)
SumAt(e, f, js) ==
    IF js = {} THEN 0
    ELSE LET j == CHOOSE h \in js : TRUE
         IN  FieldValue(Items(e)[j], f) + SumAt(e, f, js \ {j})

Requested == AggFields \cap DOMAIN options.aggregations

\* an aggregate left out of the aggregates object reads as 0
Shown(e, f) ==
    IF f \in DOMAIN results[e]["aggregates"]
    THEN results[e]["aggregates"][f]
    ELSE IntNum(0)

\* C4: records whose field is 0 or missing are not part of the aggregation
\* input: sum adds, and count counts, the non-zero values only
C4_ZeroExcluded ==
    Done =>
        \A e \in DOMAIN results : \A f \in Requested :
            /\ options.aggregations[f] = "sum"
                  => Shown(e, f) = IntNum(SumAt(e, f, NonZero(e, f)))
            /\ options.aggregations[f] = "count"
                  => Shown(e, f) = IntNum(Cardinality(NonZero(e, f)))

C4_Witness ==
    /\ Done
    /\ options.aggregations["price"] = "count"
    /\ options.aggregations["nights"] = "count"
    /\ \E e \in DOMAIN results :
          /\ results[e]["count"] = 3
          /\ \E j, k, l \in DOMAIN Items(e) :
                /\ k # l
                /\ FieldValue(Items(e)[j], "price") = 0
                /\ FieldValue(Items(e)[k], "price") # 0
                /\ FieldValue(Items(e)[l], "price") # 0
                /\ "nights" \notin DOMAIN arr[Items(e)[j]]
          /\ Shown(e, "price") = IntNum(2)
          /\ "nights" \notin DOMAIN results[e]["aggregates"]

\* C5: aggregates holds only aggregable fields that the aggregations option
\* names and whose value is truthy; a sum of 0, a count of 0 and an average
\* over no non-zero value are left out
C5_OnlyTruthyAggregates ==
    Done =>
        \A e \in DOMAIN results :
            /\ DOMAIN results[e]["aggregates"] \subseteq Requested
            /\ \A f \in DOMAIN results[e]["aggregates"] :
                  /\ results[e]["aggregates"][f] # IntNum(0)
                  /\ results[e]["aggregates"][f] # NaN
            /\ \A f \in Requested :
                  /\ (options.aggregations[f] = "sum"
                        /\ SumAt(e, f, NonZero(e, f)) = 0)
                        => f \notin DOMAIN results[e]["aggregates"]
                  /\ (options.aggregations[f] \in {"count", "avg"}
                        /\ NonZero(e, f) = {})
                        => f \notin DOMAIN results[e]["aggregates"]

C5_Witness ==
    /\ Done
    /\ \E e \in DOMAIN results :
          /\ options.aggregations["price"] = "sum"
          /\ "id" \in DOMAIN options.aggregations
          /\ NonZero(e, "price") # {}
          /\ SumAt(e, "price", NonZero(e, "price")) = 0
          /\ results[e]["aggregates"] = <<>>
    /\ \E e \in DOMAIN results : "price" \in DOMAIN results[e]["aggregates"]

\* the sum aggregate of an entry's items
SumAggregate(e, f) == getAggregatedValue(Items(e), f, "sum")

AllNonZero(e, f) == Cardinality(NonZero(e, f)) = results[e]["count"]

\* the quotient part of C6: the average is the sum of the non-zero values
\* divided by their number, not by the size of the bucket
AvgOverNonZero(e, f) ==
    SumAt(e, f, NonZero(e, f)) # 0 =>
        /\ f \in DOMAIN results[e]["aggregates"]
        /\ results[e]["aggregates"][f]
              = Divide(SumAt(e, f, NonZero(e, f)), Cardinality(NonZero(e, f)))

C7_EmptyMinMax ==
    Done =>
        \A e \in DOMAIN results : \A f \in Requested :
            NonZero(e, f) = {} =>
                /\ options.aggregations[f] = "min"
                      => /\ f \in DOMAIN results[e]["aggregates"]
                         /\ results[e]["aggregates"][f] = PosInfinity
                /\ options.aggregations[f] = "max"
                      => /\ f \in DOMAIN results[e]["aggregates"]
                         /\ results[e]["aggregates"][f] = NegInfinity
                /\ options.aggregations[f] = "avg"
                      => f \notin DOMAIN results[e]["aggregates"]

C7_Witness ==
    /\ Done
    /\ \E e \in DOMAIN results :
          /\ options.aggregations["price"] = "min"
          /\ options.aggregations["nights"] = "max"
          /\ results[e]["count"] >= 2
          /\ results[e]["aggregates"] =
                [price |-> PosInfinity, nights |-> NegInfinity]

\* C8: the items of every entry are ordered by the sort field, a missing
\* field counting as 0: non-decreasing for asc, non-increasing for desc
C8_ItemsSorted ==
    Done =>
        \A e \in DOMAIN results :
            \A j, k \in DOMAIN Items(e) :
                j < k =>
                    LET a == FieldValue(Items(e)[j], options.sortBy.field)
                        b == FieldValue(Items(e)[k], options.sortBy.field)
                    IN  /\ options.sortBy.order = "asc" => a <= b
                        /\ options.sortBy.order = "desc" => a >= b

\* an entry whose items had to be reordered, with a record lacking the field
C8_Witness ==
    /\ Done
    /\ options.sortBy.field = "nights"
    /\ \E e \in DOMAIN results :
          \E j, k \in DOMAIN Items(e) :
              /\ j < k
              /\ Items(e)[j] > Items(e)[k]
              /\ "nights" \notin DOMAIN arr[Items(e)[k]]

\* C9: the sort is stable: items of an entry with equal sort value (a
\* missing field counting as 0) keep their input order; with a sort field
\* that no record has, all items are in input order
C9_StableSort ==
    Done =>
        \A e \in DOMAIN results :
            \A j, k \in DOMAIN Items(e) :
                (/\ j < k
                 /\ FieldValue(Items(e)[j], options.sortBy.field)
                       = FieldValue(Items(e)[k], options.sortBy.field))
                    => Items(e)[j] < Items(e)[k]

C9_Witness ==
    /\ Done
    /\ \E e \in DOMAIN results :
          \E j, k, l \in DOMAIN Items(e) :
              /\ j < k /\ k < l
              /\ Items(e)[j] > Items(e)[k]
              /\ Items(e)[k] < Items(e)[l]
              /\ FieldValue(Items(e)[k], options.sortBy.field)
                    = FieldValue(Items(e)[l], options.sortBy.field)
    /\ \A i \in Refs : options.sortBy.field \in DOMAIN arr[i]

\* what an entry holds apart from the order of its items
Unordered(entry) ==
    [p \in DOMAIN entry |->
        IF p = "items" THEN Range(heap[entry[p]]) ELSE entry[p]]

\* C10: sortBy changes nothing but the order of the items inside an entry:
\* a call with another sortBy returns the same entries in the same order,
\* with the same keys, aggregates, count and set of items
C10_SortByFrame ==
    (Done /\ calls >= 2) =>
        /\ Len(results) = Len(returned)
        /\ \A e \in DOMAIN results : Unordered(results[e]) = Unordered(returned[e])

\* the second call returned items in another order than the first
C10_Witness ==
    /\ Done
    /\ calls >= 2
    /\ Len(results) >= 3
    /\ \E e \in DOMAIN results :
          /\ Items(e) # heap[returned[e]["items"]]
          /\ "price" \in DOMAIN results[e]["aggregates"]


\* C11: transformData never changes its input: no step changes a booking or
\* the list that was passed in; the items of every entry are an array of
\* their own, which is not the input list and is shared with no other entry,
\* and hold references to input records
C11_InputUnchanged ==
    /\ [][arr' = arr /\ heap'[InputArray] = heap[InputArray]]_vars
    /\ [](\A e \in DOMAIN results :
             /\ results[e]["items"] # InputArray
             /\ \A d \in DOMAIN results :
                   results[d]["items"] = results[e]["items"] => d = e
             /\ Range(Items(e)) \subseteq DOMAIN arr)

\* a call has sorted the items of an entry into another order than the
\* order of the input list
C11_Witness ==
    /\ Done
    /\ \E e \in DOMAIN results :
          /\ Len(Items(e)) = Len(arr)
          /\ \E j, k \in DOMAIN Items(e) : j < k /\ Items(e)[j] > Items(e)[k]
    /\ heap[InputArray] = [i \in DOMAIN arr |-> i]


\* C12: in every entry of the result, count is the length of items
C12_CountIsLength ==
    Done => \A e \in DOMAIN results : results[e]["count"] = Len(Items(e))

\* entries of different sizes were returned
C12_Witness ==
    /\ Done
    /\ \E e1, e2 \in DOMAIN results :
          /\ results[e1]["count"] = 1
          /\ results[e2]["count"] = 2
          /\ Len(Items(e2)) = 2


\* the field path (nights or location.city) does not resolve in record i
Unresolved(i, path) ==
    IF path = "nights" THEN "nights" \notin DOMAIN arr[i]
    ELSE \/ "location" \notin DOMAIN arr[i]
         \/ "city" \notin DOMAIN arr[i]["location"].v

\* C13: the call completes, and the records in which a field path does not
\* resolve are all in one entry of that path, whose key is the string
\* "undefined" and which has aggregates, items and count like any other
C13_UndefinedBucket ==
    Done =>
        \A k \in DOMAIN allGroupBy :
            LET path == allGroupBy[k]
                missing == {i \in Refs : Unresolved(i, path)}
            IN  missing # {} =>
                    \E e \in EntriesOfPath(k) :
                        /\ results[e][path] = "undefined"
                        /\ Range(Items(e)) = missing
                        /\ results[e]["count"] = Cardinality(missing)
                        /\ DOMAIN results[e]
                              = {path, "aggregates", "items", "count"}
                        /\ \A d \in EntriesOfPath(k) :
                              results[d][path] = "undefined" => d = e

\* a booking without location and a booking whose location has no city were
\* grouped by location.city, next to a booking that has a city
C13_Witness ==
    /\ Done
    /\ allGroupBy = <<"nights", "location.city">>
    /\ \E h, i, j \in Refs :
          /\ "location" \notin DOMAIN arr[h]
          /\ "location" \in DOMAIN arr[i] /\ Unresolved(i, "location.city")
          /\ ~Unresolved(j, "location.city")
    /\ \E e \in EntriesOfPath(2) :
          results[e]["location.city"] = "undefined" /\ results[e]["count"] = 2


AggregationKinds == {"sum", "avg", "min", "max", "count"}

\* record i has its place before record h in sorted items: by the sort
\* value in the requested order, and by input position for equal values
Precedes(i, h) ==
    LET a == FieldValue(i, options.sortBy.field)
        b == FieldValue(h, options.sortBy.field)
    IN  IF a = b THEN i < h
        ELSE IF options.sortBy.order = "asc" THEN a < b ELSE a > b

\* C14: a field whose aggregation kind is not one of the five gets 0 from
\* the aggregator and is in the aggregates of no entry, while the entries
\* are the groups of the input, their items sorted (stably) by sortBy and
\* their count the length of their items
C14_UnknownKind ==
    Done =>
        \A f \in Requested :
            options.aggregations[f] \notin AggregationKinds =>
                /\ Len(results) = EntriesBefore(Len(allGroupBy) + 1)
                /\ \A e \in DOMAIN results :
                      /\ getAggregatedValue(Items(e), f, options.aggregations[f])
                            = IntNum(0)
                      /\ f \notin DOMAIN results[e]["aggregates"]
                      /\ results[e]["count"] = Len(Items(e))
                      /\ \A j, k \in DOMAIN Items(e) :
                            j < k => Precedes(Items(e)[j], Items(e)[k])
                /\ \A k \in DOMAIN allGroupBy :
                      \A key \in KeysOf(allGroupBy[k]) :
                          \E e \in EntriesOfPath(k) :
                              /\ results[e][allGroupBy[k]] = key
                              /\ Range(Items(e))
                                    = {i \in Refs : KeyOf(i, allGroupBy[k]) = key}

\* price has an unknown kind and the prices of an entry, which are not 0,
\* were sorted into another order, next to a second entry
C14_Witness ==
    /\ Done
    /\ options.aggregations["price"] = "median"
    /\ Len(results) = 2
    /\ \E e \in DOMAIN results :
          /\ "nights" \in DOMAIN results[e]["aggregates"]
          /\ Len(Items(e)) = 2
          /\ Items(e)[1] > Items(e)[2]
          /\ FieldValue(Items(e)[1], "price") # 0
          /\ FieldValue(Items(e)[2], "price") # 0


\* the ids of the items of the e-th entry, in their order
ItemIds(e) == [j \in DOMAIN Items(e) |-> arr[Items(e)[j]]["id"].v]

\* the e-th entry is {[group]: key, aggregates, items, count} with these
\* values and nothing else
EntryIs(e, group, key, aggregates, ids, count) ==
    /\ e \in DOMAIN results
    /\ DOMAIN results[e] = {group, "aggregates", "items", "count"}
    /\ results[e][group] = key
    /\ results[e]["aggregates"] = aggregates
    /\ ItemIds(e) = ids
    /\ results[e]["count"] = count

\* C15: bookings grouped by category with price sum and passengers count,
\* sorted by nights descending, gives Hotel {price: 400} with ids 3, 1, 4
\* and then Flight {price: 750, passengers: 2} with ids 2, 5
C15_SampleByCategory ==
    (/\ Done
     /\ arr = bookings
     /\ options = [groupBy |-> ArrayOf(<<"category">>),
                   aggregations |-> [price |-> "sum", passengers |-> "count"],
                   sortBy |-> [field |-> "nights", order |-> "desc"]])
    => /\ Len(results) = 2
       /\ EntryIs(1, "category", "Hotel",
                  [price |-> IntNum(400)], <<3, 1, 4>>, 3)
       /\ EntryIs(2, "category", "Flight",
                  [price |-> IntNum(750), passengers |-> IntNum(2)],
                  <<2, 5>>, 2)

C15_Witness ==
    /\ Done
    /\ arr = bookings
    /\ options.groupBy = ArrayOf(<<"category">>)
    /\ options.aggregations = [price |-> "sum", passengers |-> "count"]
    /\ options.sortBy = [field |-> "nights", order |-> "desc"]
    /\ Len(results) = 2

\* C16: bookings grouped by category and by location.city with price sum
\* and nights avg, sorted by price descending, gives the two category
\* entries and then the three city entries
C16_SampleByCategoryAndCity ==
    (/\ Done
     /\ arr = bookings
     /\ options = [groupBy |-> ArrayOf(<<"category", "location.city">>),
                   aggregations |-> [price |-> "sum", nights |-> "avg"],
                   sortBy |-> [field |-> "price", order |-> "desc"]])
    => /\ Len(results) = 5
       /\ EntryIs(1, "category", "Hotel",
                  [price |-> IntNum(400), nights |-> IntNum(2)],
                  <<4, 1, 3>>, 3)
       /\ EntryIs(2, "category", "Flight",
                  [price |-> IntNum(750)], <<2, 5>>, 2)
       /\ EntryIs(3, "location.city", "Bangkok",
                  [price |-> IntNum(500), nights |-> [n |-> 5, d |-> 2]],
                  <<5, 1, 3>>, 3)
       /\ EntryIs(4, "location.city", "Tokyo",
                  [price |-> IntNum(450)], <<2>>, 1)
       /\ EntryIs(5, "location.city", "Dubai",
                  [price |-> IntNum(200), nights |-> IntNum(1)], <<4>>, 1)

C16_Witness ==
    /\ Done
    /\ arr = bookings
    /\ options.groupBy = ArrayOf(<<"category", "location.city">>)
    /\ options.aggregations = [price |-> "sum", nights |-> "avg"]
    /\ options.sortBy = [field |-> "price", order |-> "desc"]
    /\ Len(results) = 5


\* a returned list of entries as a value: every entry with the references
\* its items hold, in their order
ValueOf(list) ==
    [e \in DOMAIN list |->
        [p \in DOMAIN list[e] |->
            IF p = "items" THEN heap[list[e][p]] ELSE list[e][p]]]

\* C17: the call with groupBy given as the list of one path returns the
\* same value as the call before it, on the same input with the same
\* aggregations and sortBy, with groupBy given as that path alone
C17_StringIsListOfOne ==
    (/\ Done
     /\ calls >= 2
     /\ options.groupBy.t = "array"
     /\ Len(options.groupBy.v) = 1)
    => ValueOf(results) = ValueOf(returned)

\* both calls returned several entries, one with items in another order
\* than the input
C17_Witness ==
    /\ Done
    /\ calls >= 2
    /\ options.groupBy = ArrayOf(<<"nights">>)
    /\ Len(returned) = 2
    /\ \E e \in DOMAIN results :
          /\ Len(Items(e)) = 2
          /\ Items(e)[1] > Items(e)[2]


\* no filter but the search term is active
OnlySearch ==
    /\ Rendered
    /\ [filters EXCEPT !.search = "", !.sort = DEFAULT_FILTERS.sort]
          = DEFAULT_FILTERS

\* no filter is active
NoFilter == OnlySearch /\ debouncedSearch = ""

\* no filter but the amenities is active
OnlyAmenities ==
    /\ Rendered
    /\ debouncedSearch = ""
    /\ [filters EXCEPT !.search = "", !.sort = DEFAULT_FILTERS.sort,
                       !.amenities = <<>>] = DEFAULT_FILTERS

\* C18: the search term bangkok, in lower or in upper case, leaves exactly
\* one hotel of HOTELS, whose city is Bangkok
C18_SearchBangkok ==
    (OnlySearch /\ debouncedSearch \in {"bangkok", "BANGKOK"})
    => /\ Len(filteredHotels) = 1
       /\ filteredHotels[1].city = "Bangkok"

\* C19: HOTELS sorted by rating, descending, begins with the hotels rated
\* 4.8, 4.5 and 4.2
C19_RatingDescending ==
    (NoFilter /\ filters.sort.primary = [field |-> "rating", order |-> "desc"])
    => /\ Len(filteredHotels) >= 3
       /\ filteredHotels[1].rating = Divide(48, 10)
       /\ filteredHotels[2].rating = Divide(45, 10)
       /\ filteredHotels[3].rating = Divide(42, 10)

\* the hotels of HOTELS that pass the filters other than the amenities
PassingOtherFilters ==
    {HOTELS[i] : i \in {j \in DOMAIN HOTELS :
        /\ matchesSearch(HOTELS[j])
        /\ inPriceRange(HOTELS[j])
        /\ hasMinRating(HOTELS[j])
        /\ matchesDateRange(HOTELS[j])}}

\* C20: every hotel of the filtered list has every selected amenity; with no
\* amenity selected the list holds every hotel the other filters let pass;
\* with Wi-Fi and Gym selected and no other filter, the list holds Agoda
\* Palace and Mountain Stay and no other hotel
C20_AmenitiesAnd ==
    Rendered =>
        LET listed == filteredHotels
        IN  /\ \A h \in Range(listed) :
                  Range(filters.amenities) \subseteq Range(h.amenities)
            /\ filters.amenities = <<>> => Range(listed) = PassingOtherFilters
            /\ (OnlyAmenities /\ Range(filters.amenities) = {"Wi-Fi", "Gym"})
                  => /\ Len(listed) = 2
                     /\ {h.name : h \in Range(listed)}
                           = {"Agoda Palace", "Mountain Stay"}

\* Wi-Fi and Gym are selected, in this order, and two hotels are listed
C20_Witness ==
    /\ OnlyAmenities
    /\ filters.amenities = <<"Wi-Fi", "Gym">>
    /\ Len(filteredHotels) = 2



\* the least (IsMin) or greatest non-zero value the items of an entry hold
\* in a field
Extreme(e, f, IsMin) ==
    CHOOSE v \in {FieldValue(Items(e)[j], f) : j \in NonZero(e, f)} :
        \A j \in NonZero(e, f) :
            IF IsMin THEN v <= FieldValue(Items(e)[j], f)
            ELSE v >= FieldValue(Items(e)[j], f)

\* C24: for the kinds min and max, the aggregate of a bucket with at least
\* one non-zero value is the least (greatest) of its non-zero values: it is
\* in aggregates, and a value that is 0 or missing is never the min of
\* positive values nor the max of negative values
C24_MinMaxOfNonZero ==
    Done =>
        \A e \in DOMAIN results : \A f \in Requested :
            NonZero(e, f) # {} =>
                /\ options.aggregations[f] = "min"
                      => /\ f \in DOMAIN results[e]["aggregates"]
                         /\ results[e]["aggregates"][f]
                               = IntNum(Extreme(e, f, TRUE))
                /\ options.aggregations[f] = "max"
                      => /\ f \in DOMAIN results[e]["aggregates"]
                         /\ results[e]["aggregates"][f]
                               = IntNum(Extreme(e, f, FALSE))

\* a bucket with prices 0 and 2 whose min is 2
C24_Witness ==
    /\ Done
    /\ \E e \in DOMAIN results :
          /\ options.aggregations["price"] = "min"
          /\ {FieldValue(Items(e)[j], "price") : j \in DOMAIN Items(e)} = {0, 2}
          /\ results[e]["aggregates"]["price"] = IntNum(2)



\* the value an entry holds under a property name, tagged with its type:
\* count is a number, items an array, aggregates an object and a group key
\* a string
PropertyOf(entry, p) ==
    IF p = "count" THEN Num(entry[p])
    ELSE IF p = "items" THEN ArrayOf(heap[entry[p]])
    ELSE IF p = "aggregates" THEN Obj(entry[p])
    ELSE Str(entry[p])

\* the field path of the e-th entry: entries come path by path
PathOf(e) ==
    allGroupBy[CHOOSE k \in DOMAIN allGroupBy : e \in EntriesOfPath(k)]

\* C22: every entry holds the key of its bucket, a string, under the
\* property named by its field path, whatever the path, and holds the
\* aggregates, the items and the count as well
C22_KeyUnderPath ==
    Done =>
        \A e \in DOMAIN results :
            /\ {PathOf(e), "aggregates", "items", "count"}
                  \subseteq DOMAIN results[e]
            /\ PropertyOf(results[e], PathOf(e)).t = "string"
            /\ \A i \in Range(Items(e)) :
                  PropertyOf(results[e], PathOf(e)) = Str(KeyOf(i, PathOf(e)))
            /\ PropertyOf(results[e], "count") = Num(Len(Items(e)))
            /\ PropertyOf(results[e], "aggregates").t = "object"
            /\ PropertyOf(results[e], "items").t = "array"


(***************************************************************************)
(* The filters the hook starts with.                                       *)
(***************************************************************************)
\* the first render has happened and no effect has run yet: the URL and
\* localStorage are still those the page was opened with
JustMounted == mounted /\ deps = <<>>

\* what each page of Sources is to start with, read off its query string
\* and its localStorage entry by hand
StartingFilters ==
    CASE location = "" ->
            [DEFAULT_FILTERS EXCEPT !.search = "a\"b c&d=%\\"]
      [] location = "?page=2" -> DEFAULT_FILTERS
      [] location = "?filters=%7B%22search%22%3A%22bangkok%22%7D" ->
            [DEFAULT_FILTERS EXCEPT !.search = "bangkok"]
      [] location = "?page=2&filters=%257B%2522minRating%2522%253A4.5%257D" ->
            [DEFAULT_FILTERS EXCEPT !.minRating = Divide(9, 2)]
      [] location = "?filters=%7B%22search%22%3A" ->
            [DEFAULT_FILTERS EXCEPT
                !.dateRange = [checkIn |-> Str("2025-01-21"),
                               checkOut |-> Str("2025-01-19")]]
      [] location = "?filters=%25E0%25A4%25A" -> DEFAULT_FILTERS
      [] location = "?filters=5" -> DEFAULT_FILTERS
      [] location = "?filters=%7B%22minRating%22%3A1e999%7D" ->
            [DEFAULT_FILTERS EXCEPT !.minRating = PosInfinity]
      [] location = "?filters=" ->
            [DEFAULT_FILTERS EXCEPT
                !.priceRange = <<IntNum(90), IntNum(110)>>,
                !.sort = [primary |-> [field |-> "rating", order |-> "desc"],
                          secondary |-> [field |-> Str("name"),
                                         order |-> "asc"]]]

\* C21: the hook starts with the filters of the URL parameter when it is
\* there and parses, otherwise with those of the localStorage entry when it
\* is there and parses, otherwise with DEFAULT_FILTERS; a source that does
\* not parse is passed over, and what is loaded lies over the defaults, so
\* that every field of DEFAULT_FILTERS has a value
C21_StartsFromUrlThenStorageThenDefaults ==
    JustMounted =>
        /\ filters = StartingFilters
        /\ DOMAIN filters = DOMAIN DEFAULT_FILTERS

\* the URL parameter does not parse and the filters are those of localStorage
C21_Witness ==
    /\ JustMounted
    /\ location = "?filters=%7B%22search%22%3A"
    /\ filters.dateRange.checkOut = Str("2025-01-19")
    /\ filters.search = DEFAULT_FILTERS.search


(***************************************************************************)
(* The date range under handleDateChange.                                  *)
(***************************************************************************)
\* both dates are set and check-out is not strictly after check-in: of the
\* values of DateChanges only 19 January followed by 21 January is in order
BadRange(range) ==
    /\ IsSet(range.checkIn)
    /\ IsSet(range.checkOut)
    /\ <<range.checkIn.v, range.checkOut.v>> # <<"2025-01-19", "2025-01-21">>

\* C25: once the hook has its state, no step gives the filters a date range
\* with both dates set and check-out not strictly after check-in (such a
\* range is there only when it was there before the step, that is, when it
\* was loaded), and a step of handleDateChange either sets or clears the one
\* date of its call or, when that would give such a range, leaves the
\* filters as they are
C25_DateChangeKeepsRangeInOrder ==
    [][mounted =>
        /\ BadRange(filters'.dateRange) =>
              filters'.dateRange = filters.dateRange
        /\ handleDateChange =>
              \E call \in DateChanges :
                  LET range == [filters.dateRange EXCEPT ![call.type] =
                                   IF call.value = "" THEN Null
                                   ELSE Str(call.value)]
                  IN  filters' = IF BadRange(range) THEN filters
                                 ELSE [filters EXCEPT !.dateRange = range]]_vars

\* check-out has just been set two days after a check-in that was set and
\* saved before
C25_Witness ==
    /\ mounted
    /\ filters.dateRange = [checkIn |-> Str("2025-01-19"),
                            checkOut |-> Str("2025-01-21")]
    /\ deps # <<>>
    /\ deps[1].dateRange = [checkIn |-> Str("2025-01-19"), checkOut |-> Null]
    /\ localStorage = Str(JSONstringify(FiltersToJSON(deps[1])))


(***************************************************************************)
(* What the persistence effect leaves in the URL and in localStorage.      *)
(***************************************************************************)
\* the effect has run for the current filters
Persisted == mounted /\ deps = <<filters>>

\* C26: once the persistence effect has run for the current filters, the
\* filters parameter of the URL and the localStorage entry hold the
\* serialisation of the filters, and the initializer gives back the current
\* filters from the URL alone and from the localStorage entry alone
C26_PersistedFiltersLoadBack ==
    Persisted =>
        LET text == JSONstringify(FiltersToJSON(filters))
            param == urlParamsGet(URLSearchParams(location), URL_PARAMS_KEY)
        IN  /\ localStorage = Str(text)
            /\ param = Str(encodeURIComponent(text))
            /\ initialFilters(location, Null) = filters
            /\ initialFilters("", localStorage) = filters


(***************************************************************************)
(* Calls on bookings after the call of the import.                         *)
(***************************************************************************)
\* C23: a call on bookings that comes after the call of the import (and
\* after other calls) returns what it returns as the first call: with the
\* options of the import the value that the import's call returned, and
\* with the options of the two documented results those results, and the
\* list it is given is still in the order of the source
C23_LaterCallAsFirstCall ==
    (Done /\ calls >= 2) =>
        /\ heap[InputArray] = <<1, 2, 3, 4, 5>>
        /\ arr = bookings
        /\ C15_SampleByCategory
        /\ C16_SampleByCategoryAndCity
        /\ (calls = 2 /\ options = answerOptions) =>
              ValueOf(results) = ValueOf(returned)

\* the second call, with the options of the import, has returned
C23_Witness ==
    /\ Done
    /\ calls = 2
    /\ options = answerOptions
    /\ Len(returned) = 5
    /\ Len(results) = 5
    /\ results # returned

====
